---- MODULE Spec2Model ----
(***************************************************************************)
(* The configuration store of TagForge's config-service: the tables tags,  *)
(* environments, templates and template_tags with their constraints,       *)
(* defaults, cascades and updated_at triggers, the request types of the    *)
(* entity layer with their validation tags, and the requests that write    *)
(* the store, one goroutine per inbound request.                           *)
(***************************************************************************)
EXTENDS Integers, Sequences, FiniteSets, TLC

(***************************************************************************)
(* Bounds of the model.                                                    *)
(***************************************************************************)
\* Transactions started within one behaviour (the clock's last reading).
MaxClock == 3
\* Entries the migration runner may have logged before its next call.
MaxLog == 5

VARIABLES
    tags,                 \* rows of table tags
    environments,         \* rows of table environments
    templates,            \* rows of table templates
    template_tags,        \* rows of the junction table template_tags
    tags_id_seq,          \* BIGSERIAL sequence behind tags.id
    environments_id_seq,  \* BIGSERIAL sequence behind environments.id
    templates_id_seq,     \* BIGSERIAL sequence behind templates.id
    now,                  \* the store's clock
    sess,                 \* per request goroutine: the request in flight
    resp,                 \* per request goroutine: its last response
    last,                 \* the statement executed last, with the store before it
    body,                 \* the JSON body of an update request on the wire
    decoded,              \* what decoding the body into its request type gave
    migration,            \* the tracked schema version and its dirty flag
    schema,               \* the versions whose up body is in effect
    log,                  \* what the migration runner has logged
    pc,                   \* where the process is between start and exit
    ret,                  \* the last call of the migration runner
    deps,                 \* database and redis: reachable or not, latency
    answer,               \* the last response of a probe endpoint
    probe,                \* the probe handler in flight, ping by ping
    doc,                  \* a JSONMap on its way to its column and back
    requests,             \* per request: where it is in the middleware chain
    activeConnections,    \* the gauge http_active_connections
    nano,                 \* the wall clock, in nanoseconds
    uptime,               \* seconds since main made its context
    updater,              \* the metrics updater goroutine
    dbConnections,        \* the gauges database_connections
    quit,                 \* SIGINT or SIGTERM has arrived
    closed                \* what main's deferred calls have closed, in order

vars == <<tags, environments, templates, template_tags, tags_id_seq,
          environments_id_seq, templates_id_seq, now, sess, resp, last,
          body, decoded, migration, schema, log, pc, ret, deps, answer,
          probe, doc, requests, activeConnections, nano, uptime, updater,
          dbConnections, quit, closed>>

\* The store and its requests; the variables of the request decoder.
storeVars == <<tags, environments, templates, template_tags, tags_id_seq,
               environments_id_seq, templates_id_seq, now, sess, resp, last>>
wireVars == <<body, decoded>>
\* The migration runner and the process; the probe endpoints.
opsVars == <<migration, schema, log, pc, ret>>
probeVars == <<deps, answer>>
\* The requests being served and the goroutines of main.
docVars == <<doc>>
chainVars == <<requests, activeConnections, nano>>
mainVars == <<uptime, updater, dbConnections, quit, closed>>
serveVars == <<probe, docVars, chainVars, mainVars>>

store == [tags |-> tags, environments |-> environments,
          templates |-> templates, template_tags |-> template_tags]

\* Request goroutines that may be in flight at the same time.
Sessions == {"s1", "s2"}

(***************************************************************************)
(* Go values.  A pointer field of a request is <<>> when nil and           *)
(* <<v>> when it points to v.  A JSONMap is nil or a set of key/value      *)
(* pairs.                                                                  *)
(***************************************************************************)
Nil == <<>>
Ptr(v) == <<v>>
IsNil(p) == p = <<>>
Deref(p) == p[1]

NilMap == [isNil |-> TRUE, kv |-> {}]
EmptyMap == [isNil |-> FALSE, kv |-> {}]
MapOf(pairs) == [isNil |-> FALSE, kv |-> pairs]

(***************************************************************************)
(* Validation tags of the request types (go-playground/validator).         *)
(***************************************************************************)
Digit == {"0", "1", "2", "3", "4", "5", "6", "7", "8", "9"}
HexLetter == {"a", "b", "c", "d", "e", "f", "A", "B", "C", "D", "E", "F"}
Lower == {"a", "b", "c", "d", "e", "f", "g", "h", "i", "j", "k", "l", "m",
          "n", "o", "p", "q", "r", "s", "t", "u", "v", "w", "x", "y", "z"}
Upper == {"A", "B", "C", "D", "E", "F", "G", "H", "I", "J", "K", "L", "M",
          "N", "O", "P", "Q", "R", "S", "T", "U", "V", "W", "X", "Y", "Z"}

CharAt(str, i) == SubSeq(str, i, i)

\* required on a string: not the zero value
Required(str) == str # ""
\* min=a,max=b on a string: its length in characters
LenBetween(str, a, b) == Len(str) >= a /\ Len(str) <= b
\* alphanum: ^[a-zA-Z0-9]+$
Alphanum(str) ==
    /\ Len(str) > 0
    /\ \A i \in 1..Len(str) : CharAt(str, i) \in (Lower \cup Upper \cup Digit)
\* hexcolor: ^#(?:[0-9a-fA-F]{3}|[0-9a-fA-F]{4}|[0-9a-fA-F]{6}|[0-9a-fA-F]{8})$
HexColor(str) ==
    /\ Len(str) \in {4, 5, 7, 9}
    /\ CharAt(str, 1) = "#"
    /\ \A i \in 2..Len(str) : CharAt(str, i) \in (Digit \cup HexLetter)
\* min=a,max=b on a number
NumBetween(n, a, b) == n >= a /\ n <= b

\* oneof=json yaml toml env
ConfigFormats == {"json", "yaml", "toml", "env"}

\* Position of the first ch in str from position i on, 0 when there is none.
RECURSIVE IndexFrom(_, _, _)
IndexFrom(str, ch, i) ==
    IF i > Len(str) THEN 0
    ELSE IF CharAt(str, i) = ch THEN i
    ELSE IndexFrom(str, ch, i + 1)

\* The pieces of str between the occurrences of ch.
RECURSIVE Split(_, _)
Split(str, ch) ==
    LET i == IndexFrom(str, ch, 1)
    IN IF i = 0 THEN <<str>>
       ELSE <<SubSeq(str, 1, i - 1)>> \o Split(SubSeq(str, i + 1, Len(str)), ch)

AllIn(str, chars) == \A i \in 1..Len(str) : CharAt(str, i) \in chars
\* 0|[1-9]\d*
NumericId(str) ==
    /\ Len(str) > 0
    /\ AllIn(str, Digit)
    /\ Len(str) = 1 \/ CharAt(str, 1) # "0"
\* 0|[1-9]\d*|\d*[a-zA-Z-][0-9a-zA-Z-]*
PreReleaseId(str) ==
    \/ NumericId(str)
    \/ /\ Len(str) > 0
       /\ AllIn(str, Digit \cup Lower \cup Upper \cup {"-"})
       /\ ~AllIn(str, Digit)
\* [0-9a-zA-Z-]+
BuildId(str) == Len(str) > 0 /\ AllIn(str, Digit \cup Lower \cup Upper \cup {"-"})
\* semver: core "-" pre-release "+" build, the last two optional
Semver(str) ==
    LET plus == IndexFrom(str, "+", 1)
        head == IF plus = 0 THEN str ELSE SubSeq(str, 1, plus - 1)
        build == IF plus = 0 THEN <<>>
                 ELSE Split(SubSeq(str, plus + 1, Len(str)), ".")
        dash == IndexFrom(head, "-", 1)
        core == Split(IF dash = 0 THEN head ELSE SubSeq(head, 1, dash - 1), ".")
        pre == IF dash = 0 THEN <<>>
               ELSE Split(SubSeq(head, dash + 1, Len(head)), ".")
    IN /\ Len(core) = 3
       /\ \A i \in 1..3 : NumericId(core[i])
       /\ \A i \in 1..Len(pre) : PreReleaseId(pre[i])
       /\ \A i \in 1..Len(build) : BuildId(build[i])

\* Longest name and description the tags accept.
TagNameMax == 100
TagDescriptionMax == 500

\* CreateTagRequest: the set of fields that fail their tags.
ValidateCreateTagRequest(req) ==
    {f \in {"name"} : ~(Required(req.name) /\ LenBetween(req.name, 1, TagNameMax))}
    \cup {f \in {"description"} : ~LenBetween(req.description, 0, TagDescriptionMax)}
    \cup {f \in {"color"} : ~(Required(req.color) /\ HexColor(req.color))}

\* UpdateTagRequest: omitempty skips a nil pointer, a set one is checked.
ValidateUpdateTagRequest(req) ==
    {f \in {"name"} :
        ~IsNil(req.name) /\ ~LenBetween(Deref(req.name), 1, TagNameMax)}
    \cup {f \in {"description"} :
        ~IsNil(req.description)
        /\ ~LenBetween(Deref(req.description), 0, TagDescriptionMax)}
    \cup {f \in {"color"} : ~IsNil(req.color) /\ ~HexColor(Deref(req.color))}

\* Longest name, slug and description of an environment; priority's range.
EnvNameMax == 100
EnvSlugMax == 100
EnvDescriptionMax == 500
PriorityMin == 0
PriorityMax == 100

\* CreateEnvironmentRequest: the set of fields that fail their tags.
ValidateCreateEnvironmentRequest(req) ==
    {f \in {"name"} : ~(Required(req.name) /\ LenBetween(req.name, 1, EnvNameMax))}
    \cup {f \in {"slug"} :
        ~(Required(req.slug) /\ LenBetween(req.slug, 1, EnvSlugMax) /\ Alphanum(req.slug))}
    \cup {f \in {"description"} : ~LenBetween(req.description, 0, EnvDescriptionMax)}
    \cup {f \in {"priority"} :
        ~IsNil(req.priority)
        /\ ~NumBetween(Deref(req.priority), PriorityMin, PriorityMax)}


\* An UpdateEnvironmentRequest whose priority carries no min/max tag.
ValidateUpdateEnvironmentRequestNoRange(req) ==
    {f \in {"name"} :
        ~IsNil(req.name) /\ ~LenBetween(Deref(req.name), 1, EnvNameMax)}

\* UpdateEnvironmentRequest
ValidateUpdateEnvironmentRequest(req) ==
    {f \in {"name"} :
        ~IsNil(req.name) /\ ~LenBetween(Deref(req.name), 1, EnvNameMax)}
    \cup {f \in {"slug"} :
        ~IsNil(req.slug)
        /\ ~(LenBetween(Deref(req.slug), 1, EnvSlugMax) /\ Alphanum(Deref(req.slug)))}
    \cup {f \in {"description"} :
        ~IsNil(req.description)
        /\ ~LenBetween(Deref(req.description), 0, EnvDescriptionMax)}
    \cup {f \in {"priority"} :
        ~IsNil(req.priority)
        /\ ~NumBetween(Deref(req.priority), PriorityMin, PriorityMax)}

\* Longest name and description of a template.
TemplateNameMax == 200
TemplateDescriptionMax == 1000

\* CreateTemplateRequest
ValidateCreateTemplateRequest(req) ==
    {f \in {"name"} :
        ~(Required(req.name) /\ LenBetween(req.name, 1, TemplateNameMax))}
    \cup {f \in {"description"} :
        ~LenBetween(req.description, 0, TemplateDescriptionMax)}
    \cup {f \in {"format"} : ~(Required(req.format) /\ req.format \in ConfigFormats)}
    \cup {f \in {"content"} : ~Required(req.content)}
    \cup {f \in {"version"} : ~(Required(req.version) /\ Semver(req.version))}
    \cup {f \in {"environment_id"} : req.environment_id = 0}
    \cup {f \in {"created_by"} : ~Required(req.created_by)}

\* UpdateTemplateRequest: updated_by is required, every other field optional.
ValidateUpdateTemplateRequest(req) ==
    {f \in {"name"} :
        ~IsNil(req.name) /\ ~LenBetween(Deref(req.name), 1, TemplateNameMax)}
    \cup {f \in {"description"} :
        ~IsNil(req.description)
        /\ ~LenBetween(Deref(req.description), 0, TemplateDescriptionMax)}
    \cup {f \in {"format"} : ~IsNil(req.format) /\ Deref(req.format) \notin ConfigFormats}
    \cup {f \in {"content"} : ~IsNil(req.content) /\ Len(Deref(req.content)) < 1}
    \cup {f \in {"version"} : ~IsNil(req.version) /\ ~Semver(Deref(req.version))}
    \cup {f \in {"updated_by"} : ~Required(req.updated_by)}

(***************************************************************************)
(* Application errors.                                                     *)
(***************************************************************************)
NewValidationError(fieldErrors) ==
    [type |-> "validation_error", message |-> "Validation failed",
     details |-> fieldErrors]
NewNotFoundError(resource) ==
    [type |-> "not_found", message |-> resource \o " not found", details |-> {}]
NewConflictError(resource) ==
    [type |-> "conflict", message |-> resource \o " already exists", details |-> {}]
NewInternalError ==
    [type |-> "internal_error", message |-> "internal server error", details |-> {}]
NoError == [type |-> "ok", message |-> "", details |-> {}]

\* The error a handler answers for the store's SQLSTATE.
ErrorOf(sqlstate, resource) ==
    CASE sqlstate = "00000" -> NoError
      [] sqlstate = "23505" -> NewConflictError(resource)
      [] sqlstate = "02000" -> NewNotFoundError(resource)
      [] sqlstate = "23503" -> NewNotFoundError(resource)
      [] OTHER -> NewInternalError

(***************************************************************************)
(* Table tags.                                                             *)
(***************************************************************************)
\* color VARCHAR(7)
TagColorMax == 7
TagColorDefault == "#6b7280"


\* A tags table whose name column is not declared UNIQUE.
TagsNameNotUnique(row, rows) == TRUE

\* name VARCHAR(100) NOT NULL UNIQUE: no other row has the name of `row`.
TagsNameUnique(row, rows) ==
    \A r \in rows : r.id # row.id => r.name # row.name

\* The column types of tags.
TagsColumnsFit(row) ==
    /\ Len(row.name) <= TagNameMax
    /\ Len(row.color) <= TagColorMax

\* A table whose BEFORE UPDATE trigger is missing: the row keeps the
\* updated_at it had.
UpdateUpdatedAtColumnMissing(new, txTime) == new

\* BEFORE UPDATE ... EXECUTE FUNCTION update_updated_at_column():
\* NEW.updated_at = NOW(), the start time of the updating transaction.
UpdateUpdatedAtColumn(new, txTime) == [new EXCEPT !.updated_at = txTime]

\* INSERT INTO tags (name, description, color): the row the statement
\* builds, created_at and updated_at both DEFAULT NOW().
NewTagRow(id, req, txTime) ==
    [id |-> id, name |-> req.name, description |-> req.description,
     color |-> req.color, created_at |-> txTime, updated_at |-> txTime]

\* SQLSTATE of writing `row` over the other rows of tags.
TagsCheck(row, rows) ==
    IF ~TagsColumnsFit(row) THEN "22001"
    ELSE IF ~TagsNameUnique(row, rows) THEN "23505"
    ELSE "00000"

\* UPDATE tags SET <the fields the request sets> WHERE id = ..., before the
\* trigger: an absent field keeps the column.
PatchTag(row, req) ==
    [row EXCEPT
        !.name = IF IsNil(req.name) THEN @ ELSE Deref(req.name),
        !.description = IF IsNil(req.description) THEN @ ELSE Deref(req.description),
        !.color = IF IsNil(req.color) THEN @ ELSE Deref(req.color)]

(***************************************************************************)
(* Table environments.                                                     *)
(***************************************************************************)
EnvActiveDefault == TRUE
EnvPriorityDefault == 50
\* CHECK (priority >= 0 AND priority <= 100)
EnvPriorityLow == 0
EnvPriorityHigh == 100
\* name VARCHAR(100), slug VARCHAR(100)
EnvNameWidth == 100
EnvSlugWidth == 100

\* name VARCHAR(100) NOT NULL UNIQUE
EnvironmentsNameUnique(row, rows) ==
    \A r \in rows : r.id # row.id => r.name # row.name

\* An environments table whose slug column is not declared UNIQUE.
EnvironmentsSlugNotUnique(row, rows) == TRUE

\* slug VARCHAR(100) NOT NULL UNIQUE
EnvironmentsSlugUnique(row, rows) ==
    \A r \in rows : r.id # row.id => r.slug # row.slug
EnvironmentsPriorityCheck(row) ==
    row.priority >= EnvPriorityLow /\ row.priority <= EnvPriorityHigh
EnvironmentsColumnsFit(row) ==
    /\ Len(row.name) <= EnvNameWidth
    /\ Len(row.slug) <= EnvSlugWidth

\* INSERT INTO environments: a field the request leaves out takes the
\* column's DEFAULT.
NewEnvironmentRow(id, req, txTime) ==
    [id |-> id, name |-> req.name, slug |-> req.slug,
     description |-> req.description,
     active |-> IF IsNil(req.active) THEN EnvActiveDefault ELSE Deref(req.active),
     priority |-> IF IsNil(req.priority) THEN EnvPriorityDefault
                  ELSE Deref(req.priority),
     created_at |-> txTime, updated_at |-> txTime]

\* SQLSTATE of writing `row` over the other rows of environments.
EnvironmentsCheck(row, rows) ==
    IF ~EnvironmentsColumnsFit(row) THEN "22001"
    ELSE IF ~EnvironmentsPriorityCheck(row) THEN "23514"
    ELSE IF ~(EnvironmentsNameUnique(row, rows) /\ EnvironmentsSlugUnique(row, rows))
    THEN "23505"
    ELSE "00000"

PatchEnvironment(row, req) ==
    [row EXCEPT
        !.name = IF IsNil(req.name) THEN @ ELSE Deref(req.name),
        !.slug = IF IsNil(req.slug) THEN @ ELSE Deref(req.slug),
        !.description = IF IsNil(req.description) THEN @ ELSE Deref(req.description),
        !.active = IF IsNil(req.active) THEN @ ELSE Deref(req.active),
        !.priority = IF IsNil(req.priority) THEN @ ELSE Deref(req.priority)]

(***************************************************************************)
(* Tables templates and template_tags.                                     *)
(***************************************************************************)
TemplateActiveDefault == TRUE
\* name VARCHAR(200), version VARCHAR(50), created_by, updated_by VARCHAR(100)
TemplateNameWidth == 200
TemplateVersionWidth == 50
TemplateByWidth == 100


\* A templates table with UNIQUE(name) in place of UNIQUE(name, environment_id).
TemplatesNameAloneUnique(row, rows) ==
    \A r \in rows : r.id # row.id => r.name # row.name

\* UNIQUE(name, environment_id)
TemplatesNameEnvUnique(row, rows) ==
    \A r \in rows :
        r.id # row.id => ~(r.name = row.name /\ r.environment_id = row.environment_id)

\* A templates table whose environment_id references nothing.
TemplatesEnvironmentNoFK(row, envs) == TRUE

\* environment_id BIGINT NOT NULL REFERENCES environments(id)
TemplatesEnvironmentFK(row, envs) ==
    \E e \in envs : e.id = row.environment_id
TemplatesColumnsFit(row) ==
    /\ Len(row.name) <= TemplateNameWidth
    /\ Len(row.version) <= TemplateVersionWidth
    /\ Len(row.created_by) <= TemplateByWidth
    /\ Len(row.updated_by) <= TemplateByWidth

\* INSERT INTO templates: schema and default_values left out take DEFAULT
\* '{}', updated_by starts as the creator.
NewTemplateRow(id, req, txTime) ==
    [id |-> id, name |-> req.name, description |-> req.description,
     format |-> req.format, content |-> req.content,
     schema |-> IF req.schema.isNil THEN EmptyMap ELSE req.schema,
     default_values |-> IF req.default_values.isNil THEN EmptyMap
                        ELSE req.default_values,
     version |-> req.version, environment_id |-> req.environment_id,
     active |-> IF IsNil(req.active) THEN TemplateActiveDefault ELSE Deref(req.active),
     created_at |-> txTime, updated_at |-> txTime,
     created_by |-> req.created_by, updated_by |-> req.created_by]

\* SQLSTATE of writing `row` over the other rows of templates.
TemplatesCheck(row, rows, envs) ==
    IF ~TemplatesColumnsFit(row) THEN "22001"
    ELSE IF row.format \notin ConfigFormats THEN "22P02"
    ELSE IF ~TemplatesNameEnvUnique(row, rows) THEN "23505"
    ELSE IF ~TemplatesEnvironmentFK(row, envs) THEN "23503"
    ELSE "00000"


PatchTemplate(row, req) ==
    [row EXCEPT
        !.name = IF IsNil(req.name) THEN @ ELSE Deref(req.name),
        !.description = IF IsNil(req.description) THEN @ ELSE Deref(req.description),
        !.format = IF IsNil(req.format) THEN @ ELSE Deref(req.format),
        !.content = IF IsNil(req.content) THEN @ ELSE Deref(req.content),
        !.schema = IF req.schema.isNil THEN @ ELSE req.schema,
        !.default_values = IF req.default_values.isNil THEN @ ELSE req.default_values,
        !.version = IF IsNil(req.version) THEN @ ELSE Deref(req.version),
        !.environment_id = IF IsNil(req.environment_id) THEN @
                           ELSE Deref(req.environment_id),
        !.active = IF IsNil(req.active) THEN @ ELSE Deref(req.active),
        !.updated_by = req.updated_by]

\* The junction rows that give template_id the tags of the list tag_ids.
TemplateTagsRows(template_id, tag_ids) ==
    {[template_id |-> template_id, tag_id |-> tag_ids[i]] : i \in 1..Len(tag_ids)}
\* PRIMARY KEY (template_id, tag_id); tag_id REFERENCES tags(id)
TemplateTagsCheck(tag_ids, tagRows) ==
    IF Cardinality({tag_ids[i] : i \in 1..Len(tag_ids)}) # Len(tag_ids) THEN "23505"
    ELSE IF \E i \in 1..Len(tag_ids) : \A t \in tagRows : t.id # tag_ids[i] THEN "23503"
    ELSE "00000"


\* A reference from templates to environments that does not cascade.
EnvironmentsNoCascade(id, rows) == rows

\* templates.environment_id REFERENCES environments(id) ON DELETE CASCADE
EnvironmentsCascade(id, rows) == {r \in rows : r.environment_id # id}
\* template_tags.template_id REFERENCES templates(id) ON DELETE CASCADE
TemplatesCascade(kept, rows) ==
    {r \in rows : \E t \in kept : t.id = r.template_id}

(***************************************************************************)
(* Decoding an update request (encoding/json into the request struct).  A  *)
(* member of the body is absent, null, a string or an object.              *)
(***************************************************************************)
JsonAbsent == [kind |-> "absent", str |-> "", kv |-> {}]
JsonNull == [kind |-> "null", str |-> "", kv |-> {}]
JsonString(v) == [kind |-> "string", str |-> v, kv |-> {}]
JsonObject(pairs) == [kind |-> "object", str |-> "", kv |-> pairs]

\* A member decodes into a field of this kind without a type error.
FitsString(j) == j.kind \in {"absent", "null", "string"}
FitsObject(j) == j.kind \in {"absent", "null", "object"}

\* Into a *string field: absent leaves the zero value nil, null sets nil.
DecodeStringPtr(j) == IF j.kind = "string" THEN Ptr(j.str) ELSE Nil
\* Into a string field: absent and null both leave the zero value "".
DecodeString(j) == IF j.kind = "string" THEN j.str ELSE ""
\* Into a JSONMap field: absent leaves the nil map, null sets the nil map.
DecodeJSONMap(j) == IF j.kind = "object" THEN MapOf(j.kv) ELSE NilMap

NotDecoded == [done |-> FALSE, ok |-> FALSE, req |-> <<>>]

\* json.Unmarshal of a body into UpdateTemplateRequest (the members the
\* bodies here carry; every other field keeps its zero value).
DecodeUpdateTemplateRequest(b) ==
    IF /\ FitsString(b.description) /\ FitsString(b.updated_by)
       /\ FitsObject(b.schema) /\ FitsObject(b.default_values)
    THEN [done |-> TRUE, ok |-> TRUE,
          req |-> [name |-> Nil, description |-> DecodeStringPtr(b.description),
                   format |-> Nil, content |-> Nil,
                   schema |-> DecodeJSONMap(b.schema),
                   default_values |-> DecodeJSONMap(b.default_values),
                   version |-> Nil, environment_id |-> Nil, tag_ids |-> Nil,
                   active |-> Nil, updated_by |-> DecodeString(b.updated_by)]]
    ELSE [done |-> TRUE, ok |-> FALSE, req |-> <<>>]

NoBody == [description |-> JsonAbsent, schema |-> JsonAbsent,
           default_values |-> JsonAbsent, updated_by |-> JsonAbsent]

(***************************************************************************)
(* The store after the migrations have run: the seed rows, all written by  *)
(* the migration's transaction at time 0.                                  *)
(***************************************************************************)
SeedTag(id, name, description, color) ==
    [id |-> id, name |-> name, description |-> description, color |-> color,
     created_at |-> 0, updated_at |-> 0]

SeedTags ==
    {SeedTag(1, "database", "Database configuration templates", "#3b82f6"),
     SeedTag(2, "api", "API service configuration templates", "#10b981"),
     SeedTag(3, "monitoring", "Monitoring and observability configs", "#f59e0b"),
     SeedTag(4, "security", "Security and authentication configs", "#ef4444")}

SeedEnvironment(id, name, slug, description, priority) ==
    [id |-> id, name |-> name, slug |-> slug, description |-> description,
     active |-> EnvActiveDefault, priority |-> priority,
     created_at |-> 0, updated_at |-> 0]

SeedEnvironments ==
    {SeedEnvironment(1, "Development", "dev",
                     "Development environment for testing new features", 10),
     SeedEnvironment(2, "Staging", "staging",
                     "Staging environment for pre-production testing", 50),
     SeedEnvironment(3, "Production", "prod",
                     "Production environment for live applications", 90)}

Idle == [op |-> "idle", id |-> 0, req |-> <<>>, check |-> TRUE, txTime |-> 0]
NoResp == [op |-> "none", id |-> 0, req |-> <<>>, check |-> TRUE, txTime |-> 0,
           error |-> NoError]
NoLast == [s |-> "", op |-> "none", id |-> 0, req |-> <<>>, check |-> TRUE,
           txTime |-> 0, sqlstate |-> "00000", error |-> NoError,
           before |-> [tags |-> {}, environments |-> {}, templates |-> {},
                       template_tags |-> {}]]

\* The versions of the migration source: 001 and 002.  The tracked version
\* is NilVersion while no migration has been applied.
LatestVersion == 2
NilVersion == -1
Versions == 1..LatestVersion

\* The runner has not been called; no probe has been answered.
NoCall == [op |-> "none", arg |-> 0, err |-> "nil"]
NoAnswer == [handler |-> "none", code |-> 0, error |-> "", message |-> "",
             status |-> "", services |-> <<>>, probed |-> <<>>]
\* A dependency: whether it answers at all, and after how many seconds.
Dependency(up, latency) == [up |-> up, latency |-> latency]

\* No probe handler is running.
NoProbe == [handler |-> "none", stage |-> "idle", spent |-> 0, waited |-> 0,
            at |-> <<>>]

\* No document is on its way.
NoDoc == [stage |-> "none", m |-> NilMap, column |-> <<>>, recv |-> NilMap,
          before |-> NilMap]

\* The requests the server may be serving at the same time.
Requests == {"r1", "r2"}
NoRequest == [at |-> "out", header |-> "", method |-> "", id |-> "",
              echoed |-> "", ctx |-> "", how |-> "", decs |-> 0]

InitServe ==
    /\ probe = NoProbe
    /\ doc = NoDoc
    /\ requests = [r \in Requests |-> NoRequest]
    /\ activeConnections = 0
    /\ nano = 0

\* main's goroutines and deferred calls: the process not started, or
\* listening since this moment.
NoGauges == [open |-> 0, idle |-> 0, in_use |-> 0, updates |-> 0, tick |-> 0]
InitMain(listening) ==
    /\ uptime = 0
    /\ updater = IF listening THEN "running" ELSE "none"
    /\ dbConnections = NoGauges
    /\ quit = FALSE
    /\ closed = <<>>

\* The store seeded, the schema at its latest version, the server listening.
InitListening ==
    /\ tags = SeedTags
    /\ environments = SeedEnvironments
    /\ templates = {}
    /\ template_tags = {}
    /\ tags_id_seq = 4
    /\ environments_id_seq = 3
    /\ templates_id_seq = 0
    /\ now = 1
    /\ sess = [s \in Sessions |-> Idle]
    /\ resp = [s \in Sessions |-> NoResp]
    /\ last = NoLast
    /\ body = NoBody
    /\ decoded = NotDecoded
    /\ migration = [version |-> LatestVersion, dirty |-> FALSE]
    /\ schema = Versions
    /\ log = <<>>
    /\ pc = "listening"
    /\ ret = NoCall
    /\ answer = NoAnswer
    /\ InitMain(TRUE)

Init ==
    /\ InitListening
    /\ deps = [database |-> Dependency(TRUE, 0), redis |-> Dependency(TRUE, 0)]
    /\ InitServe

(***************************************************************************)
(* A request.  Its handler validates it first; a request that fails is     *)
(* answered with a ValidationError and never reaches the store.  One that  *)
(* passes starts its transaction: NOW() is fixed for the transaction at    *)
(* this moment, and the statement itself runs in a later step.  `check` is *)
(* FALSE for a write that goes to the store without the validation layer.  *)
(***************************************************************************)
Reject(s, op, id, req, fields) ==
    /\ resp' = [resp EXCEPT ![s] =
            [op |-> op, id |-> id, req |-> req, check |-> TRUE, txTime |-> 0,
             error |-> NewValidationError(fields)]]
    /\ UNCHANGED <<tags, environments, templates, template_tags, tags_id_seq,
                   environments_id_seq, templates_id_seq, now, sess, last>>

Begin(s, op, id, req, check) ==
    /\ now <= MaxClock
    /\ sess' = [sess EXCEPT ![s] =
            [op |-> op, id |-> id, req |-> req, check |-> check, txTime |-> now]]
    /\ now' = now + 1
    /\ UNCHANGED <<tags, environments, templates, template_tags, tags_id_seq,
                   environments_id_seq, templates_id_seq, resp, last>>

Handle(s, op, id, req, check, fields) ==
    /\ IF check /\ fields # {} THEN Reject(s, op, id, req, fields)
       ELSE Begin(s, op, id, req, check)
    /\ UNCHANGED <<wireVars, opsVars, probeVars, serveVars>>

\* The statement of session s has run with `sqlstate`: answer and go idle.
Finish(s, sqlstate, resource) ==
    /\ resp' = [resp EXCEPT ![s] =
            [op |-> sess[s].op, id |-> sess[s].id, req |-> sess[s].req,
             check |-> sess[s].check, txTime |-> sess[s].txTime,
             error |-> ErrorOf(sqlstate, resource)]]
    /\ last' = [s |-> s, op |-> sess[s].op, id |-> sess[s].id, req |-> sess[s].req,
                check |-> sess[s].check, txTime |-> sess[s].txTime,
                sqlstate |-> sqlstate, error |-> ErrorOf(sqlstate, resource),
                before |-> store]
    /\ sess' = [sess EXCEPT ![s] = Idle]
    /\ UNCHANGED <<now, wireVars, opsVars, probeVars, serveVars>>

(***************************************************************************)
(* Tags: create, update, delete.                                           *)
(***************************************************************************)
CreateTag(s, req, check) ==
    /\ sess[s].op = "idle"
    /\ Handle(s, "CreateTag", 0, req, check, ValidateCreateTagRequest(req))

\* INSERT INTO tags: nextval is drawn before the constraints are checked.
InsertTag(s) ==
    /\ sess[s].op = "CreateTag"
    /\ LET id == tags_id_seq + 1
           row == NewTagRow(id, sess[s].req, sess[s].txTime)
           sqlstate == TagsCheck(row, tags)
       IN /\ tags_id_seq' = id
          /\ tags' = IF sqlstate = "00000" THEN tags \cup {row} ELSE tags
          /\ Finish(s, sqlstate, "Tag")
    /\ UNCHANGED <<environments, templates, template_tags,
                   environments_id_seq, templates_id_seq>>

UpdateTag(s, id, req, check) ==
    /\ sess[s].op = "idle"
    /\ Handle(s, "UpdateTag", id, req, check, ValidateUpdateTagRequest(req))

\* UPDATE tags ... WHERE id = ...: the trigger runs on the new row.
UpdateTagRow(s) ==
    /\ sess[s].op = "UpdateTag"
    /\ LET hit == {r \in tags : r.id = sess[s].id}
       IN IF hit = {}
          THEN /\ tags' = tags
               /\ Finish(s, "02000", "Tag")
          ELSE LET old == CHOOSE r \in hit : TRUE
                   new == UpdateUpdatedAtColumn(PatchTag(old, sess[s].req), sess[s].txTime)
                   sqlstate == TagsCheck(new, tags)
               IN /\ tags' = IF sqlstate = "00000"
                              THEN (tags \ {old}) \cup {new} ELSE tags
                  /\ Finish(s, sqlstate, "Tag")
    /\ UNCHANGED <<environments, templates, template_tags, tags_id_seq,
                   environments_id_seq, templates_id_seq>>

DeleteTag(s, id) ==
    /\ sess[s].op = "idle"
    /\ Handle(s, "DeleteTag", id, <<>>, FALSE, {})


\* A cascade from tags that takes every junction row of the templates that
\* carried the tag.
TagsCascadeWholeTemplate(id, rows) ==
    {r \in rows : \A q \in rows : q.tag_id = id => q.template_id # r.template_id}

\* template_tags.tag_id REFERENCES tags(id) ON DELETE CASCADE
TagsCascade(id, rows) == {r \in rows : r.tag_id # id}

\* DELETE FROM tags WHERE id = ...
DeleteTagRow(s) ==
    /\ sess[s].op = "DeleteTag"
    /\ LET hit == {r \in tags : r.id = sess[s].id}
       IN IF hit = {}
          THEN /\ UNCHANGED <<tags, template_tags>>
               /\ Finish(s, "02000", "Tag")
          ELSE /\ tags' = tags \ hit
               /\ template_tags' = TagsCascade(sess[s].id, template_tags)
               /\ Finish(s, "00000", "Tag")
    /\ UNCHANGED <<environments, templates, tags_id_seq,
                   environments_id_seq, templates_id_seq>>

(***************************************************************************)
(* Environments: create, update, delete.                                   *)
(***************************************************************************)
CreateEnvironment(s, req, check) ==
    /\ sess[s].op = "idle"
    /\ Handle(s, "CreateEnvironment", 0, req, check, ValidateCreateEnvironmentRequest(req))

InsertEnvironment(s) ==
    /\ sess[s].op = "CreateEnvironment"
    /\ LET id == environments_id_seq + 1
           row == NewEnvironmentRow(id, sess[s].req, sess[s].txTime)
           sqlstate == EnvironmentsCheck(row, environments)
       IN /\ environments_id_seq' = id
          /\ environments' = IF sqlstate = "00000"
                             THEN environments \cup {row} ELSE environments
          /\ Finish(s, sqlstate, "Environment")
    /\ UNCHANGED <<tags, templates, template_tags, tags_id_seq, templates_id_seq>>

UpdateEnvironment(s, id, req, check) ==
    /\ sess[s].op = "idle"
    /\ Handle(s, "UpdateEnvironment", id, req, check, ValidateUpdateEnvironmentRequest(req))

UpdateEnvironmentRow(s) ==
    /\ sess[s].op = "UpdateEnvironment"
    /\ LET hit == {r \in environments : r.id = sess[s].id}
       IN IF hit = {}
          THEN /\ environments' = environments
               /\ Finish(s, "02000", "Environment")
          ELSE LET old == CHOOSE r \in hit : TRUE
                   new == UpdateUpdatedAtColumn(PatchEnvironment(old, sess[s].req),
                                                sess[s].txTime)
                   sqlstate == EnvironmentsCheck(new, environments)
               IN /\ environments' = IF sqlstate = "00000"
                                      THEN (environments \ {old}) \cup {new}
                                      ELSE environments
                  /\ Finish(s, sqlstate, "Environment")
    /\ UNCHANGED <<tags, templates, template_tags, tags_id_seq,
                   environments_id_seq, templates_id_seq>>

DeleteEnvironment(s, id) ==
    /\ sess[s].op = "idle"
    /\ Handle(s, "DeleteEnvironment", id, <<>>, FALSE, {})

\* DELETE FROM environments WHERE id = ...: its templates go with it, and
\* their junction rows with them.
DeleteEnvironmentRow(s) ==
    /\ sess[s].op = "DeleteEnvironment"
    /\ LET hit == {r \in environments : r.id = sess[s].id}
           kept == EnvironmentsCascade(sess[s].id, templates)
       IN IF hit = {}
          THEN /\ UNCHANGED <<environments, templates, template_tags>>
               /\ Finish(s, "02000", "Environment")
          ELSE /\ environments' = environments \ hit
               /\ templates' = kept
               /\ template_tags' = TemplatesCascade(kept, template_tags)
               /\ Finish(s, "00000", "Environment")
    /\ UNCHANGED <<tags, tags_id_seq, environments_id_seq, templates_id_seq>>

(***************************************************************************)
(* Templates: create, update, delete.                                      *)
(***************************************************************************)
CreateTemplate(s, req, check) ==
    /\ sess[s].op = "idle"
    /\ Handle(s, "CreateTemplate", 0, req, check, ValidateCreateTemplateRequest(req))

\* INSERT INTO templates, then INSERT INTO template_tags for the request's
\* tag_ids, in one transaction: an error rolls both back.
InsertTemplate(s) ==
    /\ sess[s].op = "CreateTemplate"
    /\ LET id == templates_id_seq + 1
           req == sess[s].req
           row == NewTemplateRow(id, req, sess[s].txTime)
           tag_ids == IF IsNil(req.tag_ids) THEN <<>> ELSE Deref(req.tag_ids)
           st1 == TemplatesCheck(row, templates, environments)
           sqlstate == IF st1 # "00000" THEN st1 ELSE TemplateTagsCheck(tag_ids, tags)
       IN /\ templates_id_seq' = id
          /\ IF sqlstate = "00000"
             THEN /\ templates' = templates \cup {row}
                  /\ template_tags' = template_tags \cup TemplateTagsRows(id, tag_ids)
             ELSE UNCHANGED <<templates, template_tags>>
          /\ Finish(s, sqlstate, "Template")
    /\ UNCHANGED <<tags, environments, tags_id_seq, environments_id_seq>>

UpdateTemplate(s, id, req, check) ==
    /\ sess[s].op = "idle"
    /\ Handle(s, "UpdateTemplate", id, req, check, ValidateUpdateTemplateRequest(req))

\* UPDATE templates ... WHERE id = ..., and, when the request carries
\* tag_ids, the template's junction rows replaced by the new list.
UpdateTemplateRow(s) ==
    /\ sess[s].op = "UpdateTemplate"
    /\ LET hit == {r \in templates : r.id = sess[s].id}
           req == sess[s].req
       IN IF hit = {}
          THEN /\ UNCHANGED <<templates, template_tags>>
               /\ Finish(s, "02000", "Template")
          ELSE LET old == CHOOSE r \in hit : TRUE
                   new == UpdateUpdatedAtColumn(PatchTemplate(old, req), sess[s].txTime)
                   st1 == TemplatesCheck(new, templates, environments)
                   sqlstate == IF st1 # "00000" \/ IsNil(req.tag_ids) THEN st1
                               ELSE TemplateTagsCheck(Deref(req.tag_ids), tags)
               IN /\ IF sqlstate = "00000"
                     THEN /\ templates' = (templates \ {old}) \cup {new}
                          /\ template_tags' =
                                IF IsNil(req.tag_ids) THEN template_tags
                                ELSE {r \in template_tags : r.template_id # old.id}
                                     \cup TemplateTagsRows(old.id, Deref(req.tag_ids))
                     ELSE UNCHANGED <<templates, template_tags>>
                  /\ Finish(s, sqlstate, "Template")
    /\ UNCHANGED <<tags, environments, tags_id_seq, environments_id_seq,
                   templates_id_seq>>

DeleteTemplate(s, id) ==
    /\ sess[s].op = "idle"
    /\ Handle(s, "DeleteTemplate", id, <<>>, FALSE, {})

\* DELETE FROM templates WHERE id = ...
DeleteTemplateRow(s) ==
    /\ sess[s].op = "DeleteTemplate"
    /\ LET hit == {r \in templates : r.id = sess[s].id}
       IN IF hit = {}
          THEN /\ UNCHANGED <<templates, template_tags>>
               /\ Finish(s, "02000", "Template")
          ELSE /\ templates' = templates \ hit
               /\ template_tags' = TemplatesCascade(templates \ hit, template_tags)
               /\ Finish(s, "00000", "Template")
    /\ UNCHANGED <<tags, environments, tags_id_seq, environments_id_seq,
                   templates_id_seq>>

(***************************************************************************)
(* The seed inserts of the migration, run again on a store that holds      *)
(* rows.  The candidate rows are taken in the order of the VALUES list;    *)
(* each draws its id from the sequence before any conflict is looked for.  *)
(***************************************************************************)
\* The candidate in position k of a VALUES list, as the row it would be.
SeedRowAt(c, seq, txTime) ==
    [c EXCEPT !.id = seq + c.id, !.created_at = txTime, !.updated_at = txTime]

\* INSERT INTO environments ... ON CONFLICT (slug) DO NOTHING: a candidate
\* whose slug a row carries is skipped; any other candidate is inserted,
\* and raises the unique violation when a row carries its name.
SeedInsertEnvironments(rows, seq, txTime) ==
    LET fresh == {c \in SeedEnvironments :
                     EnvironmentsSlugUnique(SeedRowAt(c, seq, txTime), rows)}
        clash == {c \in fresh :
                     ~EnvironmentsNameUnique(SeedRowAt(c, seq, txTime), rows)}
    IN IF clash # {}
       THEN [sqlstate |-> "23505", rows |-> rows,
             seq |-> seq + (CHOOSE k \in {c.id : c \in clash} :
                               \A c \in clash : k <= c.id)]
       ELSE [sqlstate |-> "00000",
             rows |-> rows \cup {SeedRowAt(c, seq, txTime) : c \in fresh},
             seq |-> seq + Cardinality(SeedEnvironments)]

\* INSERT INTO tags ... ON CONFLICT (name) DO NOTHING.
SeedInsertTags(rows, seq, txTime) ==
    LET fresh == {c \in SeedTags :
                     TagsNameUnique(SeedRowAt(c, seq, txTime), rows)}
    IN [sqlstate |-> "00000",
        rows |-> rows \cup {SeedRowAt(c, seq, txTime) : c \in fresh},
        seq |-> seq + Cardinality(SeedTags)]

\* The seed inserts are sent to the store again.
Seed(s) ==
    /\ sess[s].op = "idle"
    /\ Handle(s, "Seed", 0, <<>>, FALSE, {})

\* Both statements in one transaction: an error of the first aborts it.
\* Values drawn from a sequence are not given back.
SeedRows(s) ==
    /\ sess[s].op = "Seed"
    /\ LET e == SeedInsertEnvironments(environments, environments_id_seq,
                                       sess[s].txTime)
           t == SeedInsertTags(tags, tags_id_seq, sess[s].txTime)
       IN /\ environments' = e.rows
          /\ environments_id_seq' = e.seq
          /\ IF e.sqlstate = "00000"
             THEN tags' = t.rows /\ tags_id_seq' = t.seq
             ELSE UNCHANGED <<tags, tags_id_seq>>
          /\ Finish(s, e.sqlstate, "Seed")
    /\ UNCHANGED <<templates, template_tags, templates_id_seq>>

(***************************************************************************)
(* The migration library behind MigrationRunner.  The store as it sees it  *)
(* is the tracked version with its dirty flag, the schema, and the rows.   *)
(* A migration body runs as one statement batch: it takes effect as a      *)
(* whole or fails as a whole.  Before a body runs the library records the  *)
(* version it leads to as dirty, and clears the flag when the body is      *)
(* through.                                                                *)
(***************************************************************************)
Db == [version |-> migration.version, dirty |-> migration.dirty,
       schema |-> schema, tags |-> tags, environments |-> environments,
       templates |-> templates, template_tags |-> template_tags,
       tags_id_seq |-> tags_id_seq,
       environments_id_seq |-> environments_id_seq,
       templates_id_seq |-> templates_id_seq]

SetDb(d) ==
    /\ migration' = [version |-> d.version, dirty |-> d.dirty]
    /\ schema' = d.schema
    /\ tags' = d.tags
    /\ environments' = d.environments
    /\ templates' = d.templates
    /\ template_tags' = d.template_tags
    /\ tags_id_seq' = d.tags_id_seq
    /\ environments_id_seq' = d.environments_id_seq
    /\ templates_id_seq' = d.templates_id_seq

\* The up body of version v.  001 creates tags with its trigger function;
\* 002 creates environments, templates and template_tags and inserts the
\* seed rows.  CREATE INDEX, CREATE TRIGGER and CREATE TYPE carry no
\* IF NOT EXISTS: a body whose objects exist fails, and 002 needs tags.
UpBody(v, db) ==
    IF v = 1
    THEN [ok |-> 1 \notin db.schema,
          db |-> [db EXCEPT !.schema = @ \cup {1}, !.tags = {},
                            !.tags_id_seq = 0]]
    ELSE LET e == SeedInsertEnvironments({}, 0, 0)
             t == SeedInsertTags(db.tags, db.tags_id_seq, 0)
         IN [ok |-> 1 \in db.schema /\ 2 \notin db.schema,
             db |-> [db EXCEPT !.schema = @ \cup {2},
                               !.environments = e.rows,
                               !.environments_id_seq = e.seq,
                               !.templates = {}, !.templates_id_seq = 0,
                               !.template_tags = {},
                               !.tags = t.rows, !.tags_id_seq = t.seq]]

\* The down body of version v drops what its up body created.
DownBody(v, db) ==
    IF v = 1
    THEN [ok |-> 1 \in db.schema /\ 2 \notin db.schema,
          db |-> [db EXCEPT !.schema = @ \ {1}, !.tags = {},
                            !.tags_id_seq = 0]]
    ELSE [ok |-> 2 \in db.schema,
          db |-> [db EXCEPT !.schema = @ \ {2},
                            !.environments = {}, !.environments_id_seq = 0,
                            !.templates = {}, !.templates_id_seq = 0,
                            !.template_tags = {}]]

\* The up bodies from version v on, in order; the body of failAt fails
\* (a lost connection, a lock timeout) even where it could have run.
RECURSIVE UpFrom(_, _, _)
UpFrom(db, v, failAt) ==
    IF v > LatestVersion THEN [err |-> "nil", db |-> db]
    ELSE LET r == UpBody(v, db)
         IN IF v = failAt \/ ~r.ok
            THEN [err |-> "migration failed",
                  db |-> [db EXCEPT !.version = v, !.dirty = TRUE]]
            ELSE UpFrom([r.db EXCEPT !.version = v, !.dirty = FALSE],
                        v + 1, failAt)

\* A library call that applies the next pending version only.
MigrateUpNext(db, failAt) ==
    IF db.dirty THEN [err |-> "ErrDirty", db |-> db]
    ELSE IF db.version = LatestVersion THEN [err |-> "ErrNoChange", db |-> db]
    ELSE LET v == IF db.version = NilVersion THEN 1 ELSE db.version + 1
             r == UpBody(v, db)
         IN IF v = failAt \/ ~r.ok
            THEN [err |-> "migration failed",
                  db |-> [db EXCEPT !.version = v, !.dirty = TRUE]]
            ELSE [err |-> "nil",
                  db |-> [r.db EXCEPT !.version = v, !.dirty = FALSE]]

\* migrate.Up: every pending version, in order.
MigrateUp(db, failAt) ==
    IF db.dirty THEN [err |-> "ErrDirty", db |-> db]
    ELSE IF db.version # NilVersion /\ db.version \notin Versions
    THEN [err |-> "ErrNotExist", db |-> db]
    ELSE IF db.version = LatestVersion THEN [err |-> "ErrNoChange", db |-> db]
    ELSE UpFrom(db, IF db.version = NilVersion THEN 1 ELSE db.version + 1,
                failAt)

\* A library call that rolls back whether or not the store is dirty.
MigrateStepsBackDirty(db, failAt) ==
    IF db.version \notin Versions THEN [err |-> "ErrNotExist", db |-> db]
    ELSE LET v == db.version
             to == IF v = 1 THEN NilVersion ELSE v - 1
             r == DownBody(v, db)
         IN IF v = failAt \/ ~r.ok
            THEN [err |-> "migration failed",
                  db |-> [db EXCEPT !.version = to, !.dirty = TRUE]]
            ELSE [err |-> "nil",
                  db |-> [r.db EXCEPT !.version = to, !.dirty = FALSE]]

\* migrate.Steps(-1): the down body of the current version.
MigrateStepsBack(db, failAt) ==
    IF db.dirty THEN [err |-> "ErrDirty", db |-> db]
    ELSE IF db.version \notin Versions THEN [err |-> "ErrNotExist", db |-> db]
    ELSE LET v == db.version
             to == IF v = 1 THEN NilVersion ELSE v - 1
             r == DownBody(v, db)
         IN IF v = failAt \/ ~r.ok
            THEN [err |-> "migration failed",
                  db |-> [db EXCEPT !.version = to, !.dirty = TRUE]]
            ELSE [err |-> "nil",
                  db |-> [r.db EXCEPT !.version = to, !.dirty = FALSE]]

\* A library call that migrates up to reach the version it is given.
MigrateForceRuns(db, v) ==
    IF v < NilVersion THEN [err |-> "ErrInvalidVersion", db |-> db]
    ELSE LET r == UpFrom(db, 1, 0)
         IN [err |-> "nil", db |-> [r.db EXCEPT !.version = v, !.dirty = FALSE]]

\* migrate.Force: the tracked version is written, the flag cleared; no
\* body runs and the version is not looked up in the source.
MigrateForce(db, v) ==
    IF v < NilVersion THEN [err |-> "ErrInvalidVersion", db |-> db]
    ELSE [err |-> "nil", db |-> [db EXCEPT !.version = v, !.dirty = FALSE]]

(***************************************************************************)
(* MigrationRunner.  Its methods are called by the operator while the      *)
(* process is down, and Up by main on its way up.                          *)
(***************************************************************************)
Entry(level, msg, version) == [level |-> level, msg |-> msg, version |-> version]
NotRunning == {"stopped", "exited"}

\* A call returns: what it returned and logged, and the store before it.
Return(op, arg, err, cause, entries) ==
    /\ ret' = [op |-> op, arg |-> arg, err |-> err, cause |-> cause,
               before |-> Db, logged |-> Len(log), from |-> pc]
    /\ log' = log \o entries
    /\ UNCHANGED <<now, sess, resp, last, wireVars, probeVars, serveVars>>

\* A main that logs the error of Up and goes on.
AfterUpGoesOn(caller, err) == IF caller # "main" THEN pc ELSE "migrated"

\* main goes on when Up returned nil; any error is logged with log.Fatal,
\* which ends the process.  Another caller leaves the process where it is.
AfterUp(caller, err) ==
    IF caller # "main" THEN pc
    ELSE IF err = "nil" THEN "migrated" ELSE "exited"

Up(caller, failAt) ==
    /\ IF caller = "main" THEN pc = "connected" ELSE pc \in NotRunning
    /\ Len(log) < MaxLog
    /\ LET r == MigrateUp(Db, failAt)
           running == Entry("info", "Running database migrations...", 0)
       IN /\ SetDb(r.db)
          /\ IF r.err = "ErrNoChange"
             THEN Return("Up", 0, "nil", r.err,
                         <<running,
                           Entry("info", "No new migrations to apply", 0)>>)
             ELSE IF r.err # "nil"
             THEN Return("Up", 0, "failed to run migrations", r.err,
                         <<running>>)
             ELSE Return("Up", 0, "nil", r.err,
                         <<running,
                           Entry("info",
                                 "Successfully applied database migrations",
                                 0)>>)
    /\ pc' = AfterUp(caller, ret'.err)

\* The caller wants the last n versions rolled back; Down takes no count.
Down(n, failAt) ==
    /\ pc \in NotRunning
    /\ Len(log) < MaxLog
    /\ LET r == MigrateStepsBack(Db, failAt)
           rolling == Entry("info", "Rolling back one migration...", 0)
       IN /\ SetDb(r.db)
          /\ IF r.err # "nil"
             THEN Return("Down", n, "failed to rollback migration", r.err,
                         <<rolling>>)
             ELSE Return("Down", n, "nil", r.err,
                         <<rolling,
                           Entry("info",
                                 "Successfully rolled back one migration",
                                 0)>>)
    /\ UNCHANGED pc

Version ==
    /\ pc \in NotRunning
    /\ IF migration.version = NilVersion
       THEN Return("Version", 0, "failed to get migration version",
                   "ErrNilVersion", <<>>)
       ELSE Return("Version", 0, "nil", "nil", <<>>)
    /\ UNCHANGED <<tags, environments, templates, template_tags, tags_id_seq,
                   environments_id_seq, templates_id_seq, migration, schema,
                   pc>>

ForceVersion(version) ==
    /\ pc \in NotRunning
    /\ Len(log) < MaxLog
    /\ LET r == MigrateForce(Db, version)
           warning == Entry("warn",
                            "Forcing migration version (USE WITH CAUTION)",
                            version)
       IN /\ SetDb(r.db)
          /\ IF r.err # "nil"
             THEN Return("ForceVersion", version,
                         "failed to force migration version", r.err,
                         <<warning>>)
             ELSE Return("ForceVersion", version, "nil", r.err,
                         <<warning,
                           Entry("info",
                                 "Successfully forced migration version",
                                 version)>>)
    /\ UNCHANGED pc

(***************************************************************************)
(* main, from start to exit.  log.Fatal ends the process.                  *)
(***************************************************************************)
\* A step of main that changes nothing but where the process is.
Step(to) ==
    /\ pc' = to
    /\ UNCHANGED <<storeVars, wireVars, probeVars, probe, docVars, chainVars,
                   migration, schema, log>>

\* database.New, then NewMigrationRunner: a runner that was never called.
StartDatabase(ok) ==
    /\ pc \in NotRunning
    /\ Step(IF ok THEN "connected" ELSE "exited")
    /\ ret' = NoCall
    /\ uptime' = 0
    /\ updater' = "none"
    /\ dbConnections' = NoGauges
    /\ quit' = FALSE
    /\ closed' = <<>>
\* redis.NewClient and the first Ping.
StartRedis(ok) ==
    /\ pc = "migrated"
    /\ Step(IF ok THEN "pinged" ELSE "exited")
    /\ UNCHANGED <<ret, mainVars>>
\* The router is built and server.ListenAndServe starts in its goroutine.
ListenAndServe(ok) ==
    /\ pc = "pinged"
    /\ Step(IF ok THEN "listening" ELSE "exited")
    /\ updater' = "running"
    /\ UNCHANGED <<ret, uptime, dbConnections, quit, closed>>
\* SIGINT or SIGTERM: server.Shutdown under its timeout, with requests in
\* flight that need `drain` seconds.  When it returns nil main returns and
\* its deferred calls run, the last deferred first; when it returns an
\* error log.Fatal exits the process and no deferred call runs.
ShutdownTimeout == 30
Deferred == <<"database", "migrationRunner", "redis", "cancel", "shutdownCancel">>
Reverse(q) == [i \in DOMAIN q |-> q[Len(q) + 1 - i]]

ShutdownReturnsNil(drain) == drain < ShutdownTimeout

Shutdown(drain) ==
    /\ pc = "listening"
    /\ quit' = TRUE
    /\ IF ShutdownReturnsNil(drain)
       THEN /\ Step("stopped")
            /\ closed' = Reverse(Deferred)
            /\ updater' = "returned"
       ELSE /\ Step("exited")
            /\ UNCHANGED <<closed, updater>>
    /\ UNCHANGED <<ret, uptime, dbConnections>>

\* A store no migration has touched, and the process not yet started.
InitFresh ==
    /\ tags = {}
    /\ environments = {}
    /\ templates = {}
    /\ template_tags = {}
    /\ tags_id_seq = 0
    /\ environments_id_seq = 0
    /\ templates_id_seq = 0
    /\ now = 1
    /\ sess = [s \in Sessions |-> Idle]
    /\ resp = [s \in Sessions |-> NoResp]
    /\ last = NoLast
    /\ body = NoBody
    /\ decoded = NotDecoded
    /\ migration = [version |-> NilVersion, dirty |-> FALSE]
    /\ schema = {}
    /\ log = <<>>
    /\ pc = "stopped"
    /\ ret = NoCall
    /\ deps = [database |-> Dependency(TRUE, 0), redis |-> Dependency(TRUE, 0)]
    /\ answer = NoAnswer
    /\ InitServe
    /\ InitMain(FALSE)

FailAts == {0} \cup Versions
Drains == {0, ShutdownTimeout}
DownCounts == {1, 2}
ForceInputs == {-2, 1, 2, 3}

RunnerNext ==
    \/ \E caller \in {"main", "operator"}, failAt \in FailAts :
          Up(caller, failAt)
    \/ \E n \in DownCounts, failAt \in FailAts : Down(n, failAt)
    \/ Version
    \/ \E v \in ForceInputs : ForceVersion(v)
    \/ \E ok \in BOOLEAN : StartDatabase(ok)
    \/ \E ok \in BOOLEAN : StartRedis(ok)
    \/ \E ok \in BOOLEAN : ListenAndServe(ok)
    \/ \E drain \in Drains : Shutdown(drain)

SpecRunner == InitFresh /\ [][RunnerNext]_vars

(***************************************************************************)
(* The probe endpoints.  A dependency answers a ping after its latency,    *)
(* with success when it is up; a ping whose context runs out first fails.  *)
(* Times are in seconds.                                                   *)
(***************************************************************************)
HealthTimeout == 5
ReadinessTimeout == 3
HealthCheckTimeout == 5

Min(a, b) == IF a <= b THEN a ELSE b

\* The error text of a ping that failed: its context ran out, or the
\* dependency at `addr` refused the connection.
PostgresAddr == "postgres:5432"
RedisAddr == "redis:6379"
DeadlineExceeded == "context deadline exceeded"
ConnectionRefused(addr) == "dial tcp " \o addr \o ": connect: connection refused"
PingError(late, addr) ==
    IF late THEN DeadlineExceeded ELSE ConnectionRefused(addr)

\* Connection.HealthCheck: PingContext under a timeout of its own, counted
\* from context.Background(), whatever the caller's context.
HealthCheck(d) ==
    [err |-> ~d.up \/ d.latency >= HealthCheckTimeout,
     text |-> "database health check failed: "
                 \o PingError(d.latency >= HealthCheckTimeout, PostgresAddr),
     took |-> Min(d.latency, HealthCheckTimeout)]

\* redis.Ping(ctx): what is left of the handler's timeout bounds it.
Ping(d, left) ==
    [err |-> ~d.up \/ d.latency >= left,
     text |-> PingError(d.latency >= left, RedisAddr),
     took |-> IF left <= 0 THEN 0 ELSE Min(d.latency, left)]

checkDatabase(d) ==
    LET h == HealthCheck(d)
    IN [status |-> IF h.err THEN "unhealthy" ELSE "healthy",
        message |-> IF h.err THEN h.text
                    ELSE "Database connection is healthy",
        latency |-> h.took]

checkRedis(d, left) ==
    LET p == Ping(d, left)
    IN [status |-> IF p.err THEN "unhealthy" ELSE "healthy",
        message |-> IF p.err THEN p.text
                    ELSE "Redis connection is healthy",
        latency |-> p.took]

\* A Health that answers as soon as the database is found unhealthy.
HealthResponseShortCircuit(d) ==
    LET dbHealth == checkDatabase(d.database)
        redisHealth == checkRedis(d.redis, HealthTimeout - dbHealth.latency)
    IN IF dbHealth.status # "healthy"
       THEN [handler |-> "Health", code |-> 503, status |-> "unhealthy",
             services |-> [database |-> dbHealth], error |-> "",
             message |-> "", probed |-> <<"database">>, at |-> d]
       ELSE [handler |-> "Health",
             code |-> IF redisHealth.status = "healthy" THEN 200 ELSE 503,
             status |-> redisHealth.status,
             services |-> [database |-> dbHealth, redis |-> redisHealth],
             error |-> "", message |-> "",
             probed |-> <<"database", "redis">>, at |-> d]

\* Handler.Health with the dependencies as d: what it probes and answers.
HealthResponse(d) ==
    LET dbHealth == checkDatabase(d.database)
        redisHealth == checkRedis(d.redis, HealthTimeout - dbHealth.latency)
        overall == IF dbHealth.status # "healthy"
                      \/ redisHealth.status # "healthy"
                   THEN "unhealthy" ELSE "healthy"
    IN [handler |-> "Health",
        code |-> IF overall = "healthy" THEN 200 ELSE 503,
        status |-> overall,
        services |-> [database |-> dbHealth, redis |-> redisHealth],
        error |-> "", message |-> "",
        probed |-> <<"database", "redis">>, at |-> d]

\* A Liveness that answers as Readiness does.
LivenessResponseChecks(d) ==
    LET h == HealthCheck(d.database)
    IN [handler |-> "Liveness", code |-> IF h.err THEN 503 ELSE 200,
        status |-> "", services |-> <<>>,
        error |-> IF h.err THEN "service_not_ready" ELSE "",
        message |-> IF h.err THEN "Database is not ready"
                    ELSE "Service is alive",
        probed |-> <<"database">>, at |-> d]

\* Handler.Readiness with the dependencies as d: it returns at the first
\* check that fails.
ReadinessResponse(d) ==
    LET h == HealthCheck(d.database)
        p == Ping(d.redis, ReadinessTimeout - h.took)
    IN IF h.err
       THEN [handler |-> "Readiness", code |-> 503, status |-> "",
             services |-> <<>>, error |-> "service_not_ready",
             message |-> "Database is not ready",
             probed |-> <<"database">>, at |-> d]
       ELSE IF p.err
       THEN [handler |-> "Readiness", code |-> 503, status |-> "",
             services |-> <<>>, error |-> "service_not_ready",
             message |-> "Redis is not ready",
             probed |-> <<"database", "redis">>, at |-> d]
       ELSE [handler |-> "Readiness", code |-> 200, status |-> "",
             services |-> <<>>, error |-> "",
             message |-> "Service is ready",
             probed |-> <<"database", "redis">>, at |-> d]

\* Handler.Liveness with the dependencies as d: it looks at neither.
LivenessResponse(d) ==
    [handler |-> "Liveness", code |-> 200, status |-> "",
     services |-> <<>>, error |-> "", message |-> "Service is alive",
     probed |-> <<>>, at |-> d]

Liveness ==
    /\ pc = "listening"
    /\ answer' = LivenessResponse(deps)
    /\ UNCHANGED <<storeVars, wireVars, opsVars, serveVars, deps>>

Health ==
    /\ pc = "listening"
    /\ answer' = HealthResponse(deps)
    /\ UNCHANGED <<storeVars, wireVars, opsVars, serveVars, deps>>

Readiness ==
    /\ pc = "listening"
    /\ answer' = ReadinessResponse(deps)
    /\ UNCHANGED <<storeVars, wireVars, opsVars, serveVars, deps>>

\* A dependency goes down, comes back, or answers faster or slower.
Latencies == {0, 2, 4, 6}
DependencyStates ==
    [database : {Dependency(u, l) : u \in BOOLEAN, l \in Latencies},
     redis : {Dependency(u, l) : u \in BOOLEAN, l \in Latencies}]

DependenciesChange(d) ==
    /\ d # deps
    /\ deps' = d
    /\ UNCHANGED <<storeVars, wireVars, opsVars, serveVars, answer>>

ProbesNext ==
    \/ Health
    \/ Readiness
    \/ Liveness
    \/ \E d \in DependencyStates : DependenciesChange(d)

SpecProbes == Init /\ [][ProbesNext]_vars

(***************************************************************************)
(* main's goroutines while the server listens.  The metrics updater        *)
(* selects on its ticker and on ctx.Done(), ctx being the context main     *)
(* made for the first ping of redis.  Times are in seconds; a goroutine    *)
(* runs when the scheduler lets it, and select takes any case that is      *)
(* ready.                                                                  *)
(***************************************************************************)
\* Seconds the model follows the server for.
MaxUptime == 31

TickerPeriod == 30
PingTimeout == 5

\* Ticks the ticker has sent by now; its channel holds the latest only.
Ticks == uptime \div TickerPeriod

\* ctx.Done() is closed: the timeout of ctx has passed.
CtxDone == uptime >= PingTimeout

SecondPasses ==
    /\ pc = "listening"
    /\ uptime < MaxUptime
    /\ uptime' = uptime + 1
    /\ UNCHANGED <<storeVars, wireVars, opsVars, probeVars, probe, docVars,
                   chainVars, updater, dbConnections, quit, closed>>

\* case <-ticker.C: the gauges are set from db.Stats().
MetricsUpdaterTick(stats) ==
    /\ pc = "listening"
    /\ updater = "running"
    /\ Ticks > dbConnections.tick
    /\ dbConnections' = [open |-> stats.open, idle |-> stats.idle,
                         in_use |-> stats.in_use,
                         updates |-> dbConnections.updates + 1,
                         tick |-> Ticks]
    /\ UNCHANGED <<storeVars, wireVars, opsVars, probeVars, probe, docVars,
                   chainVars, uptime, updater, quit, closed>>

\* case <-ctx.Done(): the goroutine returns.
MetricsUpdaterDone ==
    /\ pc = "listening"
    /\ updater = "running"
    /\ CtxDone
    /\ updater' = "returned"
    /\ UNCHANGED <<storeVars, wireVars, opsVars, probeVars, probe, docVars,
                   chainVars, uptime, dbConnections, quit, closed>>

PoolStats == {[open |-> 2, idle |-> 1, in_use |-> 1],
              [open |-> 3, idle |-> 0, in_use |-> 3]}

MainNext ==
    \/ SecondPasses
    \/ \E stats \in PoolStats : MetricsUpdaterTick(stats)
    \/ MetricsUpdaterDone
    \/ \E drain \in Drains : Shutdown(drain)

SpecMain == Init /\ [][MainNext]_vars

(***************************************************************************)
(* The middleware chain of the router: gin.Recovery, Metrics.Middleware,   *)
(* corsMiddleware, requestIDMiddleware, loggingMiddleware, then the        *)
(* handler.  Each request runs the chain in a goroutine of its own.        *)
(***************************************************************************)
\* Readings of the wall clock within one behaviour.
MaxNano == 2

\* Where a request is between Inc and Dec of the gauge.
Inside == {"metrics", "cors", "handler", "returned", "panicking"}

\* A Dec written after c.Next() instead of deferred: a panic passes it by.
DecUnlessPanic(gauge, at) == IF at = "panicking" THEN gauge ELSE gauge - 1

\* defer m.activeConnections.Dec(): it runs when the middleware returns
\* and when a panic unwinds it.
Dec(gauge, at) == gauge - 1

\* generateRequestID: the clock's reading in nanoseconds, in decimal.
generateRequestID == ToString(nano)

\* A request enters Metrics.Middleware: Inc.
Middleware(r, header, method) ==
    /\ pc = "listening"
    /\ requests[r].at \in {"out", "done"}
    /\ requests' = [requests EXCEPT ![r] =
                        [NoRequest EXCEPT !.at = "metrics", !.header = header,
                                          !.method = method]]
    /\ activeConnections' = activeConnections + 1
    /\ UNCHANGED <<storeVars, wireVars, opsVars, probeVars, probe, docVars,
                   mainVars, nano>>

\* corsMiddleware: an OPTIONS request is answered 204 and the chain ends.
corsMiddleware(r) ==
    /\ requests[r].at = "metrics"
    /\ requests' = [requests EXCEPT ![r] =
                        IF @.method = "OPTIONS"
                        THEN [@ EXCEPT !.at = "returned", !.how = "abort"]
                        ELSE [@ EXCEPT !.at = "cors"]]
    /\ UNCHANGED <<storeVars, wireVars, opsVars, probeVars, probe, docVars,
                   mainVars, nano, activeConnections>>

\* requestIDMiddleware: the header's value, or a generated one.
requestIDMiddleware(r) ==
    /\ requests[r].at = "cors"
    /\ LET requestID == IF requests[r].header = "" THEN generateRequestID
                        ELSE requests[r].header
       IN requests' = [requests EXCEPT ![r] =
                          [@ EXCEPT !.at = "handler", !.id = requestID,
                                    !.echoed = requestID, !.ctx = requestID]]
    /\ UNCHANGED <<storeVars, wireVars, opsVars, probeVars, probe, docVars,
                   mainVars, nano, activeConnections>>

\* The handler returns, or panics.
HandlerReturns(r, panics) ==
    /\ requests[r].at = "handler"
    /\ requests' = [requests EXCEPT ![r] =
                        IF panics
                        THEN [@ EXCEPT !.at = "panicking", !.how = "panic"]
                        ELSE [@ EXCEPT !.at = "returned", !.how = "ok"]]
    /\ UNCHANGED <<storeVars, wireVars, opsVars, probeVars, probe, docVars,
                   mainVars, nano, activeConnections>>

\* Metrics.Middleware is left, by return or by the panic: the deferred Dec.
MiddlewareReturns(r) ==
    /\ requests[r].at \in {"returned", "panicking"}
    /\ activeConnections' = Dec(activeConnections, requests[r].at)
    /\ requests' = [requests EXCEPT ![r] =
                        [@ EXCEPT !.at = "done",
                                  !.decs = IF activeConnections' = activeConnections
                                           THEN @ ELSE @ + 1]]
    /\ UNCHANGED <<storeVars, wireVars, opsVars, probeVars, probe, docVars,
                   mainVars, nano>>

\* The wall clock goes on by a nanosecond.
ClockAdvances ==
    /\ nano < MaxNano
    /\ nano' = nano + 1
    /\ UNCHANGED <<storeVars, wireVars, opsVars, probeVars, probe, docVars,
                   mainVars, requests, activeConnections>>

RequestHeaders == {"", "abc-123"}
RequestMethods == {"GET", "OPTIONS"}

ChainNext ==
    \/ \E r \in Requests, header \in RequestHeaders, method \in RequestMethods :
          Middleware(r, header, method)
    \/ \E r \in Requests : corsMiddleware(r)
    \/ \E r \in Requests : requestIDMiddleware(r)
    \/ \E r \in Requests, panics \in BOOLEAN : HandlerReturns(r, panics)
    \/ \E r \in Requests : MiddlewareReturns(r)
    \/ ClockAdvances

SpecChain == Init /\ [][ChainNext]_vars

(***************************************************************************)
(* JSONMap, the Go type of the structured-document columns schema and      *)
(* default_values, as the driver writes and reads it.  The column holds    *)
(* NULL or the bytes of json.Marshal: the members of the document, keys    *)
(* sorted.  json.Unmarshal into a map that is not nil keeps the entries    *)
(* the map has and sets the members it reads.                              *)
(***************************************************************************)
\* Bytes in their order, as far as names use them.
AsciiOrder == "-0123456789ABCDEFGHIJKLMNOPQRSTUVWXYZ_abcdefghijklmnopqrstuvwxyz"
Byte(ch) == CHOOSE i \in 1..Len(AsciiOrder) : SubSeq(AsciiOrder, i, i) = ch

RECURSIVE StrLess(_, _)
StrLess(a, b) ==
    IF b = "" THEN FALSE
    ELSE IF a = "" THEN TRUE
    ELSE IF CharAt(a, 1) # CharAt(b, 1)
         THEN Byte(CharAt(a, 1)) < Byte(CharAt(b, 1))
    ELSE StrLess(SubSeq(a, 2, Len(a)), SubSeq(b, 2, Len(b)))

Null == [null |-> TRUE, bytes |-> <<>>]
Bytes(members) == [null |-> FALSE, bytes |-> members]

Keys(kv) == {m[1] : m \in kv}

\* json.Marshal of a map: its members, sorted by key.
Marshal(kv) ==
    CHOOSE q \in [1..Cardinality(kv) -> kv] :
        \A i, j \in DOMAIN q : i < j => StrLess(q[i][1], q[j][1])

\* json.Unmarshal of an object into a map: a nil map is allocated first,
\* a map that is not nil is used as it is.
RECURSIVE Unmarshal(_, _)
Unmarshal(bytes, kv) ==
    IF bytes = <<>> THEN kv
    ELSE Unmarshal(Tail(bytes),
                   {m \in kv : m[1] # Head(bytes)[1]} \cup {Head(bytes)})

\* JSONMap.Value.
JSONMapValue(j) == IF j.isNil THEN Null ELSE Bytes(Marshal(j.kv))

\* JSONMap.Scan into the JSONMap j.
JSONMapScan(j, value) ==
    IF value.null THEN EmptyMap
    ELSE MapOf(Unmarshal(value.bytes, IF j.isNil THEN {} ELSE j.kv))

\* The JSONMaps of the model: nil, or up to one value under each key.
DocKeys == {"host", "port"}
DocValues == {"db", "5432"}
JSONMaps ==
    {NilMap} \cup
    {MapOf(kv) : kv \in {pairs \in SUBSET (DocKeys \X DocValues) :
                            \A a, b \in pairs : a[1] = b[1] => a = b}}

\* The driver calls Value on the JSONMap of a write.
Value ==
    /\ doc.stage = "held"
    /\ doc' = [doc EXCEPT !.stage = "stored", !.column = JSONMapValue(doc.m)]
    /\ UNCHANGED <<storeVars, wireVars, opsVars, probeVars, probe, chainVars,
                   mainVars>>

\* The driver calls Scan with the column on the JSONMap of a read.
Scan ==
    /\ doc.stage = "stored"
    /\ doc' = [doc EXCEPT !.stage = "scanned",
                          !.recv = JSONMapScan(doc.recv, doc.column)]
    /\ UNCHANGED <<storeVars, wireVars, opsVars, probeVars, probe, chainVars,
                   mainVars>>

\* Any JSONMap to write, any JSONMap to read into.
InitDocuments ==
    /\ InitListening
    /\ deps = [database |-> Dependency(TRUE, 0), redis |-> Dependency(TRUE, 0)]
    /\ probe = NoProbe
    /\ \E m \in JSONMaps, recv \in JSONMaps :
          doc = [stage |-> "held", m |-> m, column |-> <<>>, recv |-> recv,
                 before |-> recv]
    /\ requests = [r \in Requests |-> NoRequest]
    /\ activeConnections = 0
    /\ nano = 0

DocumentsNext ==
    \/ Value
    \/ Scan

SpecDocuments == InitDocuments /\ [][DocumentsNext]_vars

(***************************************************************************)
(* The list endpoints.  Each runs one SELECT with an ORDER BY and walks     *)
(* the rows with rows.Next and rows.Scan.  The query fails when the        *)
(* database is down; a walk may fail at any row: rows.Next when the        *)
(* connection breaks, rows.Scan when a column does not convert.            *)
(***************************************************************************)
\* ORDER BY priority DESC; ORDER BY name.
ByPriorityDesc(r, q) == r.priority >= q.priority
ByName(r, q) == r.name = q.name \/ StrLess(r.name, q.name)

\* The orders in which a SELECT with an ORDER BY may return the rows: rows
\* that compare equal come in any order.
OrderBy(rows, order) ==
    {q \in [1..Cardinality(rows) -> rows] :
        /\ \A i, j \in DOMAIN q : i # j => q[i] # q[j]
        /\ \A i, j \in DOMAIN q :
              i < j => IF order = "name" THEN ByName(q[i], q[j])
                       ELSE ByPriorityDesc(q[i], q[j])}

\* The columns each handler selects and returns.
EnvironmentItem(r) ==
    [id |-> r.id, name |-> r.name, slug |-> r.slug,
     description |-> r.description, active |-> r.active,
     priority |-> r.priority]
TagItem(r) ==
    [id |-> r.id, name |-> r.name, description |-> r.description,
     color |-> r.color]

\* The error texts of the driver.
ScanError == "sql: Scan error on column index 3, name \"description\": converting NULL to string is unsupported"
BadConnection == "driver: bad connection"

NoFailure == [at |-> "none", row |-> 0]

\* One list handler over the rows q in the order the query returned them.
\* A rows.Next that fails returns false as at the end of the rows, and the
\* handler does not look at rows.Err().
ListResponse(handler, d, q, fail) ==
    LET n == Len(q)
        base == [handler |-> handler, code |-> 200, items |-> q,
                 total |-> n, error |-> "", cause |-> "", all |-> q]
    IN IF ~d.database.up
       THEN [base EXCEPT !.code = 500, !.items = <<>>, !.total = 0,
                         !.error = ConnectionRefused(PostgresAddr),
                         !.cause = ConnectionRefused(PostgresAddr)]
       ELSE IF fail.at = "scan" /\ fail.row <= n
       THEN [base EXCEPT !.code = 500, !.items = <<>>, !.total = 0,
                         !.error = ScanError, !.cause = ScanError]
       ELSE IF fail.at = "next" /\ fail.row <= n
       THEN [base EXCEPT !.items = SubSeq(q, 1, fail.row - 1),
                         !.total = fail.row - 1, !.cause = BadConnection]
       ELSE base

getEnvironments(fail) ==
    /\ pc = "listening"
    /\ \E q \in OrderBy(environments, "priority DESC") :
          answer' = ListResponse("getEnvironments", deps,
                                 [i \in DOMAIN q |-> EnvironmentItem(q[i])],
                                 fail)
    /\ UNCHANGED <<storeVars, wireVars, opsVars, serveVars, deps>>

getTags(fail) ==
    /\ pc = "listening"
    /\ \E q \in OrderBy(tags, "name") :
          answer' = ListResponse("getTags", deps,
                                 [i \in DOMAIN q |-> TagItem(q[i])], fail)
    /\ UNCHANGED <<storeVars, wireVars, opsVars, serveVars, deps>>

\* Where a walk over the rows may fail; the states of the dependencies the
\* endpoints are asked in.
ListFailures ==
    {NoFailure, [at |-> "scan", row |-> 2], [at |-> "next", row |-> 1],
     [at |-> "next", row |-> 3]}
Outages ==
    {[database |-> Dependency(db, 0), redis |-> Dependency(TRUE, 0)] :
        db \in BOOLEAN}

(***************************************************************************)
(* A probe handler second by second: it sends its pings one after the      *)
(* other and waits for each to return.  `spent` counts the seconds since   *)
(* the handler made its context, `waited` those since the ping was sent.   *)
(***************************************************************************)
\* Seconds the model lets a handler wait; a dependency slower than this
\* never answers.
MaxWait == 6

\* A ping without a deadline returns only when it is answered.
PingContextUnbounded(d, waited, timeout) == d.latency <= waited

\* PingContext and Ping return when the dependency has answered or
\* refused, or when the context's deadline has passed.
PingContextReturns(d, waited, timeout) ==
    d.latency <= waited \/ waited >= timeout

ProbeTimeout(handler) ==
    IF handler = "Health" THEN HealthTimeout ELSE ReadinessTimeout

ProbeResponse(handler, d) ==
    IF handler = "Health" THEN HealthResponse(d) ELSE ReadinessResponse(d)

\* A request for Health or Readiness arrives: the handler makes its
\* context and sends the database ping.
Invoke(handler) ==
    /\ pc = "listening"
    /\ probe.stage \in {"idle", "done"}
    /\ probe' = [handler |-> handler, stage |-> "database", spent |-> 0,
                 waited |-> 0, at |-> deps]
    /\ UNCHANGED <<storeVars, wireVars, opsVars, probeVars, docVars,
                   chainVars, mainVars>>

\* A second passes with a ping outstanding.
Wait ==
    /\ probe.stage \in {"database", "redis"}
    /\ probe.waited < MaxWait
    /\ IF probe.stage = "database"
       THEN ~PingContextReturns(probe.at.database, probe.waited,
                                HealthCheckTimeout)
       ELSE ~PingContextReturns(probe.at.redis, probe.waited,
                                ProbeTimeout(probe.handler)
                                    - (probe.spent - probe.waited))
    /\ probe' = [probe EXCEPT !.spent = @ + 1, !.waited = @ + 1]
    /\ UNCHANGED <<storeVars, wireVars, opsVars, probeVars, docVars,
                   chainVars, mainVars>>

\* HealthCheck returns.  Readiness answers at once when it failed; in
\* every other case the handler goes on to ping redis.
DatabaseReturns ==
    /\ probe.stage = "database"
    /\ PingContextReturns(probe.at.database, probe.waited, HealthCheckTimeout)
    /\ IF probe.handler = "Readiness" /\ HealthCheck(probe.at.database).err
       THEN /\ probe' = [probe EXCEPT !.stage = "done"]
            /\ answer' = ReadinessResponse(probe.at)
       ELSE /\ probe' = [probe EXCEPT !.stage = "redis", !.waited = 0]
            /\ UNCHANGED answer
    /\ UNCHANGED <<storeVars, wireVars, opsVars, deps, docVars, chainVars,
                   mainVars>>

\* The redis ping returns and the handler writes its response.
RedisReturns ==
    /\ probe.stage = "redis"
    /\ PingContextReturns(probe.at.redis, probe.waited,
                          ProbeTimeout(probe.handler)
                              - (probe.spent - probe.waited))
    /\ probe' = [probe EXCEPT !.stage = "done"]
    /\ answer' = ProbeResponse(probe.handler, probe.at)
    /\ UNCHANGED <<storeVars, wireVars, opsVars, deps, docVars, chainVars,
                   mainVars>>

\* The dependencies the handlers may meet: up or down, quick, slow, or
\* never answering.
WaitLatencies == {0, 2, MaxWait + 1}
WaitStates ==
    [database : {Dependency(u, l) : u \in BOOLEAN, l \in WaitLatencies},
     redis : {Dependency(u, l) : u \in BOOLEAN, l \in WaitLatencies}]

WaitNext ==
    \/ \E handler \in {"Health", "Readiness"} : Invoke(handler)
    \/ Wait
    \/ DatabaseReturns
    \/ RedisReturns

\* The server is listening, the dependencies in any of their states.
InitWait ==
    /\ InitListening
    /\ deps \in WaitStates
    /\ InitServe

\* Time passes, and a handler whose ping has returned goes on.
SpecWait ==
    /\ InitWait
    /\ [][WaitNext]_vars
    /\ WF_vars(Wait)
    /\ WF_vars(DatabaseReturns)
    /\ WF_vars(RedisReturns)

(***************************************************************************)
(* Concurrent requests on tags.                                            *)
(***************************************************************************)
TagCreateInputs ==
    {[name |-> n, description |-> "", color |-> "#3b82f6"] : n \in {"api", "API"}}
TagUpdateInputs ==
    {[name |-> Nil, description |-> Ptr("d"), color |-> Nil],
     [name |-> Ptr("API"), description |-> Nil, color |-> Nil],
     [name |-> Nil, description |-> Nil, color |-> Ptr("#000")]}
TagIdInputs == {2, 5}

TagsNext ==
    \E s \in Sessions :
        \/ \E req \in TagCreateInputs : CreateTag(s, req, TRUE)
        \/ \E id \in TagIdInputs, req \in TagUpdateInputs : UpdateTag(s, id, req, TRUE)
        \/ \E id \in TagIdInputs : DeleteTag(s, id)
        \/ InsertTag(s)
        \/ UpdateTagRow(s)
        \/ DeleteTagRow(s)

SpecTags == Init /\ [][TagsNext]_vars

(***************************************************************************)
(* One client writing all three entities.                                  *)
(***************************************************************************)
Client == "s1"

NoTagPatch == [name |-> Nil, description |-> Nil, color |-> Nil]
NoEnvPatch == [name |-> Nil, slug |-> Nil, description |-> Nil, active |-> Nil,
               priority |-> Nil]
NoTemplatePatch ==
    [name |-> Nil, description |-> Nil, format |-> Nil, content |-> Nil,
     schema |-> NilMap, default_values |-> NilMap, version |-> Nil,
     environment_id |-> Nil, tag_ids |-> Nil, active |-> Nil, updated_by |-> ""]

StoreTagCreates ==
    {[name |-> n, description |-> "", color |-> TagColorDefault] : n \in {"api", "API"}}
StoreTagUpdates ==
    {[NoTagPatch EXCEPT !.name = Ptr(n)] : n \in {"database", "API"}}
StoreTagIds == {1, 2}

EnvCreate(name, slug) ==
    [name |-> name, slug |-> slug, description |-> "", active |-> Nil,
     priority |-> Nil]
StoreEnvCreates == {EnvCreate("QA", "dev"), EnvCreate("QA", "qa")}
StoreEnvUpdates ==
    {[NoEnvPatch EXCEPT !.name = Ptr("Development")],
     [NoEnvPatch EXCEPT !.name = Ptr("QA")]}
\* Writes that validation refuses or never sees: a slug that is not
\* alphanumeric, and a rename sent to the store as it is.
StoreRawEnvCreates == {EnvCreate("Development", "dev-2")}
StoreRawEnvUpdates == {[NoEnvPatch EXCEPT !.slug = Ptr("dev")]}
StoreEnvIds == {1, 2}

StoreTemplateCreates ==
    {[name |-> "db-config", description |-> "", format |-> "yaml",
      content |-> "a: 1", schema |-> NilMap, default_values |-> NilMap,
      version |-> "1.0.0", environment_id |-> e, tag_ids |-> t, active |-> Nil,
      created_by |-> "alice"] :
        e \in {1, 2, 9}, t \in {Nil, Ptr(<<1, 2>>), Ptr(<<1, 7>>)}}
StoreTemplateUpdates ==
    {[NoTemplatePatch EXCEPT !.updated_by = "bob", !.environment_id = Ptr(e)] :
        e \in {1, 9}}
    \cup {[NoTemplatePatch EXCEPT !.updated_by = "bob", !.tag_ids = Ptr(t)] :
        t \in {<<2>>, <<7>>}}
StoreTemplateIds == {1, 2}

Next ==
    \/ \E req \in StoreTagCreates : CreateTag(Client, req, TRUE)
    \/ \E id \in StoreTagIds, req \in StoreTagUpdates : UpdateTag(Client, id, req, TRUE)
    \/ \E id \in StoreTagIds : DeleteTag(Client, id)
    \/ InsertTag(Client)
    \/ UpdateTagRow(Client)
    \/ DeleteTagRow(Client)
    \/ \E req \in StoreEnvCreates : CreateEnvironment(Client, req, TRUE)
    \/ \E req \in StoreRawEnvCreates : CreateEnvironment(Client, req, FALSE)
    \/ \E id \in StoreEnvIds, req \in StoreEnvUpdates :
            UpdateEnvironment(Client, id, req, TRUE)
    \/ \E id \in StoreEnvIds, req \in StoreRawEnvUpdates :
            UpdateEnvironment(Client, id, req, FALSE)
    \/ \E id \in StoreEnvIds : DeleteEnvironment(Client, id)
    \/ InsertEnvironment(Client)
    \/ UpdateEnvironmentRow(Client)
    \/ DeleteEnvironmentRow(Client)
    \/ \E req \in StoreTemplateCreates : CreateTemplate(Client, req, TRUE)
    \/ \E id \in StoreTemplateIds, req \in StoreTemplateUpdates :
            UpdateTemplate(Client, id, req, TRUE)
    \/ \E id \in StoreTemplateIds : DeleteTemplate(Client, id)
    \/ InsertTemplate(Client)
    \/ UpdateTemplateRow(Client)
    \/ DeleteTemplateRow(Client)

Spec == Init /\ [][Next]_vars

(***************************************************************************)
(* One client writing environments, with priorities on both sides of the   *)
(* range, validated and not.                                               *)
(***************************************************************************)
PriorityInputs == {-1, 0, 100, 101}

PrioEnvCreates ==
    {[EnvCreate("QA", "qa") EXCEPT !.priority = Ptr(n)] : n \in PriorityInputs}
    \cup {EnvCreate("Perf", "perf")}
PrioEnvUpdates ==
    {[NoEnvPatch EXCEPT !.priority = Ptr(n)] : n \in PriorityInputs}
PrioEnvIds == {1, 4}

EnvironmentsNext ==
    \/ \E req \in PrioEnvCreates, check \in BOOLEAN :
            CreateEnvironment(Client, req, check)
    \/ \E id \in PrioEnvIds, req \in PrioEnvUpdates, check \in BOOLEAN :
            UpdateEnvironment(Client, id, req, check)
    \/ InsertEnvironment(Client)
    \/ UpdateEnvironmentRow(Client)

SpecEnvironments == Init /\ [][EnvironmentsNext]_vars

(***************************************************************************)
(* Concurrent requests on one template.                                    *)
(***************************************************************************)
TplCreates ==
    {[name |-> "db-config", description |-> "", format |-> "yaml",
      content |-> "a: 1", schema |-> NilMap, default_values |-> NilMap,
      version |-> "1.0.0", environment_id |-> 1, tag_ids |-> Ptr(<<1, 2>>),
      active |-> Nil, created_by |-> "alice"]}
TplUpdates ==
    {[NoTemplatePatch EXCEPT !.description = Ptr("primary")],
     [NoTemplatePatch EXCEPT !.description = Ptr("primary"), !.updated_by = "bob"],
     [NoTemplatePatch EXCEPT !.version = Ptr("1.0.1"), !.updated_by = "carol"]}
TplIds == {1}

TemplatesNext ==
    \E s \in Sessions :
        \/ \E req \in TplCreates : CreateTemplate(s, req, TRUE)
        \/ \E id \in TplIds, req \in TplUpdates : UpdateTemplate(s, id, req, TRUE)
        \/ InsertTemplate(s)
        \/ UpdateTemplateRow(s)

SpecTemplates == Init /\ [][TemplatesNext]_vars

(***************************************************************************)
(* Update bodies arriving at the decoder.                                  *)
(***************************************************************************)
TextMembers == {JsonAbsent, JsonNull, JsonString("primary"), JsonObject({})}
DocMembers == {JsonAbsent, JsonNull, JsonObject({}), JsonObject({<<"port", "5432">>})}
ByMembers == {JsonAbsent, JsonString("bob")}

UpdateBodies ==
    [description : TextMembers, schema : DocMembers, default_values : DocMembers,
     updated_by : ByMembers]

\* A body arrives.
ReadBody(b) ==
    /\ decoded.done \/ body = NoBody
    /\ body' = b
    /\ decoded' = NotDecoded
    /\ UNCHANGED <<storeVars, opsVars, probeVars, serveVars>>

\* The handler binds it to UpdateTemplateRequest.
BindUpdateTemplateRequest ==
    /\ ~decoded.done
    /\ decoded' = DecodeUpdateTemplateRequest(body)
    /\ UNCHANGED <<body, storeVars, opsVars, probeVars, serveVars>>

DecodeNext ==
    \/ \E b \in UpdateBodies : ReadBody(b)
    \/ BindUpdateTemplateRequest

SpecDecode == Init /\ [][DecodeNext]_vars

(***************************************************************************)
(* One client creating tags, with color and description given or omitted.  *)
(* An omitted member of the body leaves the string field of                *)
(* CreateTagRequest at its zero value "".                                  *)
(***************************************************************************)
TagDefaultCreates ==
    {[name |-> n, description |-> d, color |-> c] :
        n \in {"cache", "queue"}, d \in {"", "d"}, c \in {"", "#10b981"}}

TagDefaultsNext ==
    \/ \E req \in TagDefaultCreates : CreateTag(Client, req, TRUE)
    \/ InsertTag(Client)

SpecTagDefaults == Init /\ [][TagDefaultsNext]_vars

(***************************************************************************)
(* One client renaming and deleting seeded rows, and the seed inserts run  *)
(* again in between.                                                       *)
(***************************************************************************)
SeedEnvUpdates ==
    {[NoEnvPatch EXCEPT !.slug = Ptr("dev2")],
     [NoEnvPatch EXCEPT !.name = Ptr("Dev")]}
SeedTagUpdates == {[NoTagPatch EXCEPT !.name = Ptr("db")]}
SeedIds == {1}

SeedNext ==
    \/ \E id \in SeedIds, req \in SeedEnvUpdates :
          UpdateEnvironment(Client, id, req, TRUE)
    \/ \E id \in SeedIds : DeleteEnvironment(Client, id)
    \/ \E id \in SeedIds, req \in SeedTagUpdates : UpdateTag(Client, id, req, TRUE)
    \/ \E id \in SeedIds : DeleteTag(Client, id)
    \/ Seed(Client)
    \/ UpdateEnvironmentRow(Client)
    \/ DeleteEnvironmentRow(Client)
    \/ UpdateTagRow(Client)
    \/ DeleteTagRow(Client)
    \/ SeedRows(Client)

SpecSeed == Init /\ [][SeedNext]_vars

(***************************************************************************)
(* The list endpoints over a store that changes and dependencies that go   *)
(* down and come back.                                                     *)
(***************************************************************************)
ListIds == {1}
ListEnvCreates ==
    {[name |-> "QA", slug |-> "qa", description |-> "", active |-> Nil,
      priority |-> Ptr(50)]}

ListsNext ==
    \/ \E fail \in ListFailures : getEnvironments(fail)
    \/ \E fail \in ListFailures : getTags(fail)
    \/ Health
    \/ \E d \in Outages : DependenciesChange(d)
    \/ \E id \in ListIds : DeleteEnvironment(Client, id)
    \/ \E id \in ListIds : DeleteTag(Client, id)
    \/ \E req \in ListEnvCreates : CreateEnvironment(Client, req, TRUE)
    \/ DeleteEnvironmentRow(Client)
    \/ DeleteTagRow(Client)
    \/ InsertEnvironment(Client)

SpecLists == Init /\ [][ListsNext]_vars

(***************************************************************************)
(* Properties.                                                             *)
(***************************************************************************)
Other(s) == CHOOSE t \in Sessions : t # s

\* The rows of `rows` with identity id.
RowsById(rows, id) == {r \in rows : r.id = id}
RowById(rows, id) == CHOOSE r \in rows : r.id = id

\* The last statement is a CreateTag whose request was in flight while the
\* other goroutine's latest request, a CreateTag of the same name, started
\* and ran.
OverlappingCreates ==
    /\ last.op = "CreateTag"
    /\ resp[Other(last.s)].op = "CreateTag"
    /\ resp[Other(last.s)].req.name = last.req.name
    /\ resp[Other(last.s)].txTime > last.txTime

\* C1: a CreateTag whose name a row of tags already carries fails with the
\* ConflictError and leaves tags as it was; one whose name is free adds
\* exactly its row and succeeds; and of two CreateTag requests of one name
\* that overlap in time, never both succeed: the one that runs second gets
\* the ConflictError, while the first one's row stays as written.
C1_DuplicateTagNameConflicts ==
    /\ last.op = "CreateTag" =>
        IF \E r \in last.before.tags : r.name = last.req.name
        THEN /\ last.error = NewConflictError("Tag")
             /\ tags = last.before.tags
        ELSE /\ last.error = NoError
             /\ last.before.tags \subseteq tags
             /\ Cardinality(tags \ last.before.tags) = 1
             /\ \A r \in tags \ last.before.tags : r.name = last.req.name
    /\ OverlappingCreates =>
        /\ ~(last.error = NoError /\ resp[Other(last.s)].error = NoError)
        /\ resp[Other(last.s)].error = NoError =>
              /\ last.error = NewConflictError("Tag")
              /\ Cardinality({r \in tags : r.name = last.req.name}) = 1
              /\ \A r \in tags : r.name = last.req.name =>
                    r.created_at = resp[Other(last.s)].txTime

\* Witness of C1: two overlapping creations of the new name "API", the second
\* to run answered with the ConflictError after the first succeeded.
C1_Witness ==
    /\ OverlappingCreates
    /\ last.req.name = "API"
    /\ last.error.type = "conflict"
    /\ resp[Other(last.s)].error = NoError

\* The last statement ran without error.
LastOk(op) == last.op = op /\ last.sqlstate = "00000"

\* C2: no two Tags share a name, no two Environments share a name or a slug,
\* and no two Templates share the pair (name, environment_id), whatever
\* creates, renames and deletes have run, validated or not.
C2_UniqueKeys ==
    /\ \A a, b \in tags : a.name = b.name => a = b
    /\ \A a, b \in environments : (a.name = b.name \/ a.slug = b.slug) => a = b
    /\ \A a, b \in templates :
          (a.name = b.name /\ a.environment_id = b.environment_id) => a = b

\* Witness of C2: the store has refused a rename that collides with the key
\* of another row, sent to it without validation.
C2_Witness ==
    /\ last.op = "UpdateEnvironment"
    /\ last.sqlstate = "23505"
    /\ ~last.check
    /\ \E e \in environments : e.id # last.id /\ e.slug = Deref(last.req.slug)

\* C3: a CreateTemplate whose environment and tags exist fails with the
\* ConflictError exactly when a Template of the same name already exists
\* in the same Environment; a Template of that name in another Environment
\* does not stand in its way.
C3_TemplateNamePerEnvironment ==
    (/\ last.op = "CreateTemplate"
     /\ \E e \in last.before.environments : e.id = last.req.environment_id
     /\ TemplateTagsCheck(IF IsNil(last.req.tag_ids) THEN <<>>
                          ELSE Deref(last.req.tag_ids),
                          last.before.tags) = "00000")
    => IF \E t \in last.before.templates :
              /\ t.name = last.req.name
              /\ t.environment_id = last.req.environment_id
       THEN /\ last.error = NewConflictError("Template")
            /\ templates = last.before.templates
       ELSE /\ last.error = NoError
            /\ last.before.templates \subseteq templates
            /\ \E t \in templates \ last.before.templates :
                  /\ t.name = last.req.name
                  /\ t.environment_id = last.req.environment_id

\* Witness of C3: one name lives in two Environments, and its third
\* creation, in one of the two, has been refused.
C3_Witness ==
    /\ last.op = "CreateTemplate"
    /\ last.error.type = "conflict"
    /\ \E a, b \in templates :
          /\ a.name = last.req.name /\ b.name = last.req.name
          /\ a.environment_id # b.environment_id
          /\ a.environment_id = last.req.environment_id

\* C4: deleting an Environment removes exactly its row, the Templates that
\* reference it and the junction rows of those Templates; the Tags are as
\* before.
C4_DeleteEnvironmentCascades ==
    LastOk("DeleteEnvironment") =>
        /\ environments = {e \in last.before.environments : e.id # last.id}
        /\ templates = {t \in last.before.templates : t.environment_id # last.id}
        /\ template_tags =
              {r \in last.before.template_tags :
                  \E t \in last.before.templates :
                      t.id = r.template_id /\ t.environment_id # last.id}
        /\ tags = last.before.tags

\* Witness of C4: the deleted Environment had a tagged Template, and a
\* Template of another Environment is still there.
C4_Witness ==
    /\ LastOk("DeleteEnvironment")
    /\ \E t \in last.before.templates :
          /\ t.environment_id = last.id
          /\ \E r \in last.before.template_tags : r.template_id = t.id
    /\ templates # {}

\* C5: deleting a Tag removes its row and exactly the junction rows that
\* reference it: every Template is as it was, field by field, and each one's
\* tag set is the old one less that tag.
C5_DeleteTagOnlyJunctionRows ==
    LastOk("DeleteTag") =>
        /\ tags = {t \in last.before.tags : t.id # last.id}
        /\ template_tags = {r \in last.before.template_tags : r.tag_id # last.id}
        /\ templates = last.before.templates
        /\ environments = last.before.environments

\* Witness of C5: a Template with two tags has lost one of them to the
\* deletion of that Tag and kept the other.
C5_Witness ==
    /\ LastOk("DeleteTag")
    /\ \E r \in last.before.template_tags :
          /\ r.tag_id = last.id
          /\ \E t \in templates : t.id = r.template_id
          /\ \E q \in template_tags : q.template_id = r.template_id

\* C6: every Template's environment_id names an existing Environment, and
\* every junction row names an existing Template and an existing Tag.
C6_NoDanglingReference ==
    /\ \A t \in templates : \E e \in environments : e.id = t.environment_id
    /\ \A r \in template_tags :
          /\ \E t \in templates : t.id = r.template_id
          /\ \E g \in tags : g.id = r.tag_id

\* Witness of C6: rows that were referenced have been deleted, the
\* referencing rows gone with them.
C6_Witness ==
    /\ last.op \in {"DeleteTag", "DeleteEnvironment"}
    /\ last.sqlstate = "00000"
    /\ last.before.template_tags # template_tags

\* An update of a template that sets, of the optional fields, description
\* alone.
OnlyDescription(req) ==
    /\ ~IsNil(req.description)
    /\ IsNil(req.name) /\ IsNil(req.format) /\ IsNil(req.content)
    /\ IsNil(req.version) /\ IsNil(req.environment_id) /\ IsNil(req.active)
    /\ IsNil(req.tag_ids) /\ req.schema.isNil /\ req.default_values.isNil

C8_UpdatedAtStrictlyLater ==
    /\ (last.op = "CreateTag" /\ last.sqlstate = "00000") =>
          \A r \in tags \ last.before.tags : r.created_at = r.updated_at
    /\ (last.op = "UpdateTag" /\ last.sqlstate = "00000") =>
          RowById(tags, last.id).updated_at
              > RowById(last.before.tags, last.id).updated_at

\* The priority a create or update request of an environment names, if any.
NamesPriority(r) ==
    /\ r.op \in {"CreateEnvironment", "UpdateEnvironment"}
    /\ ~IsNil(r.req.priority)
InRange(n) == n >= 0 /\ n <= 100

\* C9: a validated create or update of an Environment whose priority is
\* outside [0,100] is answered with a ValidationError on priority and never
\* reaches the store; priorities 0 and 100 pass validation and are stored;
\* a priority outside the range that reaches the store unvalidated is
\* refused by it; so every stored Environment has its priority in [0,100].
C9_PriorityRange ==
    /\ \A e \in environments : InRange(e.priority)
    /\ \A s \in Sessions :
          (NamesPriority(resp[s]) /\ resp[s].check) =>
              IF InRange(Deref(resp[s].req.priority))
              THEN resp[s].error.type # "validation_error"
              ELSE /\ resp[s].error.type = "validation_error"
                   /\ "priority" \in resp[s].error.details
                   /\ resp[s].txTime = 0
    /\ \A s \in Sessions :
          (NamesPriority(sess[s]) /\ sess[s].check) =>
              InRange(Deref(sess[s].req.priority))
    /\ NamesPriority(last) =>
          IF InRange(Deref(last.req.priority))
          THEN last.sqlstate = "00000" =>
                  \E e \in environments :
                      /\ e.priority = Deref(last.req.priority)
                      /\ e.updated_at = last.txTime
          ELSE /\ ~last.check
               /\ last.sqlstate \in {"23514", "02000"}
               /\ last.sqlstate = "02000" =>
                      RowsById(last.before.environments, last.id) = {}
               /\ environments = last.before.environments

\* Witness of C9: priorities 0 and 100 are both stored, and a validated
\* request for priority 101 has just been refused.
C9_Witness ==
    /\ \E e \in environments : e.priority = 0
    /\ \E e \in environments : e.priority = 100
    /\ resp[Client].op = "UpdateEnvironment"
    /\ resp[Client].check
    /\ Deref(resp[Client].req.priority) = 101
    /\ resp[Client].error.type = "validation_error"

\* The members of an update body in which null is to mean "clear".
Clearable == {"description", "schema", "default_values"}

\* C10: an update body in which description, schema or default_values is
\* null decodes to a request different from the one the same body without
\* that member decodes to.
C10_NullDistinctFromAbsent ==
    (decoded.done /\ decoded.ok) =>
        \A f \in Clearable :
            body[f].kind = "null" =>
                DecodeUpdateTemplateRequest([body EXCEPT ![f] = JsonAbsent]).req
                    # decoded.req

\* C11: a Tag creation with a valid name and no color is accepted and its
\* row is stored with color #6b7280; with no description the row is stored
\* with the empty description.
C11_OmittedColorDefaults ==
    \A s \in Sessions :
        (/\ resp[s].op = "CreateTag"
         /\ resp[s].check
         /\ LenBetween(resp[s].req.name, 1, TagNameMax)
         /\ resp[s].req.color = "")
        => /\ resp[s].error.type # "validation_error"
           /\ resp[s].error = NoError =>
                 \E r \in tags :
                     /\ r.name = resp[s].req.name
                     /\ r.color = TagColorDefault
                     /\ r.description = resp[s].req.description

\* C12: after initialization the environments dev, staging and prod with
\* priorities 10, 50 and 90 and the default tags exist; and the seed
\* inserts, run again in any state, raise no error and leave every table
\* with exactly the rows it had.
C12_SeedIdempotent ==
    /\ last = NoLast =>
          /\ {<<e.slug, e.priority>> : e \in environments}
                = {<<"dev", 10>>, <<"staging", 50>>, <<"prod", 90>>}
          /\ {t.name : t \in tags}
                = {"database", "api", "monitoring", "security"}
    /\ last.op = "Seed" =>
          /\ last.sqlstate = "00000"
          /\ store = last.before

\* The versions above the tracked version v.
Pending(v) == {w \in Versions : v = NilVersion \/ w > v}
\* The store is as the last call of the runner found it.
Untouched == Db = ret.before
\* The rows and the schema are as the last call of the runner found them.
SameContents ==
    [Db EXCEPT !.version = 0, !.dirty = FALSE]
        = [ret.before EXCEPT !.version = 0, !.dirty = FALSE]

\* C13: an Up that returns nil has put every pending version into effect
\* and left the store clean at the latest version; an Up one of whose
\* bodies fails has put into effect exactly the pending versions below the
\* failing one; and an Up on a clean store at the latest version returns
\* nil, logs that there is nothing to apply, and leaves the schema, the
\* rows and the tracked version as they were.
C13_UpAppliesPendingOnceOnly ==
    ret.op = "Up" =>
        /\ (ret.err = "nil" /\ ret.cause = "nil") =>
              /\ migration = [version |-> LatestVersion, dirty |-> FALSE]
              /\ Pending(ret.before.version) # {}
              /\ schema = ret.before.schema \cup Pending(ret.before.version)
        /\ ret.cause = "migration failed" =>
              /\ migration.version \in Pending(ret.before.version)
              /\ schema = ret.before.schema \cup
                    {w \in Pending(ret.before.version) : w < migration.version}
        /\ (ret.before.version = LatestVersion /\ ~ret.before.dirty) =>
              /\ ret.err = "nil"
              /\ ret.cause = "ErrNoChange"
              /\ Untouched
              /\ log[Len(log)].msg = "No new migrations to apply"

\* Witness of C13: Up has applied both versions to a fresh store, and a
\* second Up right after it has found nothing to apply.
C13_Witness ==
    /\ ret.op = "Up"
    /\ ret.cause = "ErrNoChange"
    /\ Len(log) = 4
    /\ log[2].msg = "Successfully applied database migrations"
    /\ schema = Versions
    /\ environments = SeedEnvironments

\* C14: a Down asked to roll back n versions from version v that returns
\* nil leaves the tracked version at v - n (no version when v = n), with
\* the last n versions out of effect.
C14_DownRollsBackCount ==
    (/\ ret.op = "Down"
     /\ ret.err = "nil"
     /\ ret.before.version >= ret.arg)
    => LET to == ret.before.version - ret.arg
       IN /\ migration.version = IF to = 0 THEN NilVersion ELSE to
          /\ schema = {w \in ret.before.schema : w <= to}

\* C15: ForceVersion(v) logs its warning first, whatever follows; when it
\* returns nil the tracked version is v and the dirty flag is clear, and
\* the schema and the rows of every table are as they were; when it
\* returns an error nothing has changed.
C15_ForceVersionRunsNoBody ==
    ret.op = "ForceVersion" =>
        /\ Len(log) > ret.logged
        /\ log[ret.logged + 1].level = "warn"
        /\ log[ret.logged + 1].version = ret.arg
        /\ IF ret.err = "nil"
           THEN /\ migration = [version |-> ret.arg, dirty |-> FALSE]
                /\ SameContents
                /\ Len(log) = ret.logged + 2
                /\ log[ret.logged + 2].level = "info"
           ELSE /\ Untouched
                /\ Len(log) = ret.logged + 1

\* Witness of C15: a store left dirty at version 2 with only version 1 in
\* effect has been forced back to version 1.
C15_Witness ==
    /\ ret.op = "ForceVersion"
    /\ ret.err = "nil"
    /\ ret.before.dirty
    /\ ret.before.version = 2
    /\ migration = [version |-> 1, dirty |-> FALSE]
    /\ schema = {1}

\* C16: an Up or Down one of whose bodies fails leaves the store dirty;
\* an Up or Down called on a dirty store returns an error and changes
\* nothing; and the flag is clear again only after a ForceVersion.
C16_DirtyRefusesUpAndDown ==
    /\ (ret.op \in {"Up", "Down"} /\ ret.cause = "migration failed") =>
          migration.dirty
    /\ (ret.op \in {"Up", "Down", "Version"} /\ ret.before.dirty) =>
          /\ ret.op # "Version" => ret.err # "nil" /\ ret.cause = "ErrDirty"
          /\ Untouched
          /\ migration.dirty
    /\ (ret.op # "none" /\ ret.before.dirty /\ ~migration.dirty) =>
          ret.op = "ForceVersion"

\* Witness of C16: the second body failed, and a Down on the dirty store
\* has been refused.
C16_Witness ==
    /\ ret.op = "Down"
    /\ ret.before.dirty
    /\ ret.cause = "ErrDirty"
    /\ migration = [version |-> 2, dirty |-> TRUE]
    /\ schema = {1}

\* C17: whenever the server is listening, the Up of this start returned
\* nil and the store is clean at the latest version (with every version in
\* effect, unless the tracked version was forced); and an Up of main that
\* returned an error has ended the process.
C17_ListensOnlyAfterUp ==
    /\ pc \in {"migrated", "pinged", "listening"} =>
          /\ ret.op = "Up" /\ ret.from = "connected" /\ ret.err = "nil"
          /\ migration = [version |-> LatestVersion, dirty |-> FALSE]
          /\ (\A i \in 1..Len(log) : log[i].level # "warn") =>
                schema = Versions
    /\ (ret.op = "Up" /\ ret.from = "connected" /\ ret.err # "nil") =>
          pc = "exited"

\* Witness of C17: a start ended at a failing migration, the operator
\* forced the version back, and the next start is listening.
C17_Witness ==
    /\ pc = "listening"
    /\ schema = Versions
    /\ \E i \in 1..Len(log) : log[i].level = "warn"
    /\ log[1].msg = "Running database migrations..."
    /\ log[2].level = "warn"

C19_ReadinessAgreesWithHealth ==
    answer.handler = "Readiness" =>
        (answer.code = 200 <=> HealthResponse(answer.at).code = 200)

\* C20: every not-ready response of Readiness is the same response,
\* whichever of the database and redis is down.
C20_NotReadyResponsesAlike ==
    (answer.handler = "Readiness" /\ answer.code = 503) =>
        \A d \in DependencyStates :
            ReadinessResponse(d).code = 503 =>
                /\ ReadinessResponse(d).error = answer.error
                /\ ReadinessResponse(d).message = answer.message

\* C21: Liveness checks no dependency: whatever the state of the database
\* and of redis, both unreachable included, it answers 200 with
\* "Service is alive" and has probed neither.
C21_LivenessChecksNothing ==
    answer.handler = "Liveness" =>
        /\ answer.code = 200
        /\ answer.message = "Service is alive"
        /\ answer.probed = <<>>

\* Witness of C21: Liveness has answered with the database and redis both
\* down.
C21_Witness ==
    /\ answer.handler = "Liveness"
    /\ ~answer.at.database.up
    /\ ~answer.at.redis.up

\* C22: the status Health reports for redis is the one redis earns by
\* itself, answering or not within the timeout of its own probe: it does
\* not depend on how long the probe of the database took, nor on whether
\* that probe timed out.
C22_RedisStatusItsOwn ==
    answer.handler = "Health" =>
        answer.services.redis.status
            = checkRedis(answer.at.redis, HealthTimeout).status

\* C23: every invocation of Health and of Readiness eventually writes its
\* response, also when the database or redis never answers: no ping keeps
\* the handler waiting for ever.
C23_ProbeAnswers ==
    (probe.stage \in {"database", "redis"}) ~> (probe.stage = "done")

\* Witness of C23: a handler has written its response although the
\* database it pinged never answered.
C23_Witness ==
    /\ probe.stage = "done"
    /\ probe.at.database.latency > MaxWait
    /\ answer.handler = probe.handler

\* A text holds another.
Contains(str, sub) ==
    \E i \in 0..(Len(str) - Len(sub)) : SubSeq(str, i + 1, i + Len(sub)) = sub

\* The texts of the errors of the store, of the cache and of their drivers.
InternalTexts ==
    {ConnectionRefused(PostgresAddr), ConnectionRefused(RedisAddr),
     DeadlineExceeded, ScanError, BadConnection}

Opaque(str) == \A t \in InternalTexts : ~Contains(str, t)

\* C24: a response to a call that met an unexpected error of the store or
\* of a dependency carries an opaque message only, never the text of the
\* underlying error: so for the list of environments, the list of tags
\* and the detailed health endpoint.
C24_NoInternalErrorText ==
    /\ answer.handler \in {"getEnvironments", "getTags"} =>
          Opaque(answer.error)
    /\ answer.handler = "Health" =>
          \A n \in DOMAIN answer.services : Opaque(answer.services[n].message)

\* C29: a list handler answers 200 with every row of its table, the
\* environments by priority from high to low, the tags by name, and a
\* total that counts the items returned, or it answers 500 with an error;
\* a read that failed partway never gives a 200 with part of the rows.
C29_AllRowsOrError ==
    answer.handler \in {"getEnvironments", "getTags"} =>
        \/ /\ answer.code = 200
           /\ answer.items = answer.all
           /\ answer.total = Len(answer.items)
           /\ answer.cause = ""
           /\ \A i, j \in DOMAIN answer.items :
                 i < j => IF answer.handler = "getTags"
                          THEN ByName(answer.items[i], answer.items[j])
                          ELSE ByPriorityDesc(answer.items[i], answer.items[j])
        \/ /\ answer.code = 500
           /\ answer.error # ""

\* C25: a structured document comes back from the store as it went in:
\* Scan of what Value gave for a JSONMap m leaves a document equal to m,
\* whatever the JSONMap read into held before; a nil map is written as
\* NULL, and NULL is read back as an empty document.
C25_DocumentRoundTrip ==
    doc.stage = "scanned" =>
        IF doc.m.isNil
        THEN doc.column = Null /\ doc.recv = EmptyMap
        ELSE doc.recv = doc.m

\* C26: a request that arrives without an X-Request-ID header gets an id
\* no other such request has, requests served at the same time included;
\* a request that arrives with the header keeps its value, echoed in the
\* response header and stored in the request's context.
C26_RequestIdsUnique ==
    /\ \A r, q \in Requests :
          (/\ r # q
           /\ requests[r].id # "" /\ requests[r].header = ""
           /\ requests[q].id # "" /\ requests[q].header = "")
          => requests[r].id # requests[q].id
    /\ \A r \in Requests :
          (requests[r].id # "" /\ requests[r].header # "") =>
              /\ requests[r].id = requests[r].header
              /\ requests[r].echoed = requests[r].header
              /\ requests[r].ctx = requests[r].header

\* C28: whatever the interleaving of the requests, the gauge
\* http_active_connections is the number of requests inside the metrics
\* middleware; it is never negative; every request that has left the
\* middleware, by return, by an aborted chain or by a panic of its
\* handler, has decremented it once; and it is 0 when all have left.
C28_GaugeCountsRequestsInside ==
    /\ activeConnections
          = Cardinality({r \in Requests : requests[r].at \in Inside})
    /\ activeConnections >= 0
    /\ \A r \in Requests : requests[r].at = "done" => requests[r].decs = 1
    /\ (\A r \in Requests : requests[r].at \in {"out", "done"}) =>
          activeConnections = 0

\* Witness of C28: one request has left by the panic of its handler and
\* another by an aborted chain, and the gauge is back at 0.
C28_Witness ==
    /\ requests["r1"].at = "done" /\ requests["r1"].how = "panic"
    /\ requests["r2"].at = "done" /\ requests["r2"].how = "abort"
    /\ activeConnections = 0

\* C27: the metrics updater that main starts runs for as long as the
\* server does: from the start to the shutdown signal the goroutine has
\* not returned, and every tick of its ticker has set the gauges of the
\* database connections or is still there for the goroutine to take.
C27_MetricsUpdaterKeepsRunning ==
    pc = "listening" =>
        /\ updater = "running"
        /\ Ticks > dbConnections.tick => updater = "running"

\* C30: once SIGINT or SIGTERM has arrived and the process has ended, the
\* redis client, the migration runner and the database connection have
\* been closed, in this order, the reverse of the order of their creation.
Resources == {"redis", "migrationRunner", "database"}
C30_ClosedBeforeExit ==
    (quit /\ pc \in NotRunning) =>
        SelectSeq(closed, LAMBDA x : x \in Resources)
            = <<"redis", "migrationRunner", "database">>

====
